---------------------------- MODULE Spec2Model ----------------------------
(***************************************************************************)
(* The call subsystem of the chat client: the zustand call store, the      *)
(* SocketProvider / IncomingCallModal / ChatWindow / VideoCallScreen        *)
(* handlers that drive it, and the WebRTCService singleton.  An async       *)
(* function is a task that is suspended at each await; the steps between    *)
(* two awaits are one action.  React's render and effects run in the        *)
(* action Render, which has priority over every other action.               *)
(***************************************************************************)
EXTENDS Integers, Sequences, FiniteSets, Bags, TLC

VARIABLES store, rtc, vcs, tasks, pc, tracks, nextCall, nCand, hung, last,
          socketService, platform

\* the call subsystem
callVars ==
    <<store, rtc, vcs, tasks, pc, tracks, nextCall, nCand, hung, last, platform>>

vars == <<store, rtc, vcs, tasks, pc, tracks, nextCall, nCand, hung, last,
          socketService, platform>>

---------------------------------------------------------------------------
(* Bounds *)

MaxCalls == 2
MaxCand == 1
MaxTasks == 2
MaxTracks == 4
MaxDuration == 2
MaxSockets == 3

TrackIds == 1..MaxTracks

(* Inputs *)

Me == "me"
Peers == {"A"}
CallTypes == {"audio", "video"}
ConnStates == {"connected", "disconnected", "failed"}

---------------------------------------------------------------------------
(* Values *)

NoCall == [id |-> 0, caller |-> "none", callee |-> "none", type |-> "none"]

NoTask ==
    [kind |-> "none", at |-> "none", call |-> NoCall, inst |-> FALSE, arg |-> 0]

NoLast ==
    [ev |-> "none", callId |-> 0, toasts |-> 0, ended |-> 0, emitted |-> {},
     stale |-> FALSE]

---------------------------------------------------------------------------
(* callStore.ts *)

StoreInit ==
    [activeCall |-> NoCall,
     incomingCall |-> NoCall,
     callType |-> "none",
     isCallActive |-> FALSE,
     isRinging |-> FALSE,
     isMuted |-> FALSE,
     isVideoEnabled |-> TRUE,
     isScreenSharing |-> FALSE,
     callDuration |-> 0,
     callSignal |-> 0,
     localStream |-> 0,
     remoteStreams |-> [p \in Peers |-> 0],
     connectionState |-> "none",
     iceConnectionState |-> "none"]

setActiveCall(s, call) ==
    [s EXCEPT !.activeCall = call, !.isCallActive = (call # NoCall)]

\* an IncomingCallData is a call record; its signal is the offer of that call
setIncomingCall(s, data) ==
    [s EXCEPT !.incomingCall = data,
              !.isRinging = (data # NoCall),
              !.callSignal = data.id]

startCall(s, type) ==
    [s EXCEPT !.callType = type,
              !.isCallActive = TRUE,
              !.isRinging = TRUE,
              !.isVideoEnabled = (type = "video"),
              !.callDuration = 0,
              !.callSignal = s.incomingCall.id,
              !.connectionState = "none",
              !.iceConnectionState = "none"]

setLocalStream(s, stream) == [s EXCEPT !.localStream = stream]

\* remoteStreams is a Map from peer id to stream; 0 stands for no entry
addRemoteStream(s, peerId, stream) == [s EXCEPT !.remoteStreams[peerId] = stream]

RemoteStreams(s) == {s.remoteStreams[p] : p \in Peers} \ {0}

setConnectionState(s, state) == [s EXCEPT !.connectionState = state]

setScreenSharing(s, sharing) == [s EXCEPT !.isScreenSharing = sharing]

incrementDuration(s) == [s EXCEPT !.callDuration = @ + 1]

\* the store's part of setMuted / setVideoEnabled; their part on the tracks of
\* the stored stream is EnableTracks
setMuted(s, muted) == [s EXCEPT !.isMuted = muted]

setVideoEnabled(s, enabled) == [s EXCEPT !.isVideoEnabled = enabled]

\* the streams whose tracks callStore.endCall stops
StoreStreams(s) ==
    (IF s.localStream # 0 THEN {s.localStream} ELSE {}) \cup RemoteStreams(s)

\* a variant of the store's endCall that forgets to reset connectionState
Store_endCall_KeepsConnectionState(s) ==
    [StoreInit EXCEPT !.connectionState = s.connectionState]

\* a variant of the store's endCall that leaves the incoming call in place
Store_endCall_KeepsIncoming(s) ==
    [StoreInit EXCEPT !.incomingCall = s.incomingCall, !.isRinging = s.isRinging]

Store_endCall(s) == StoreInit

---------------------------------------------------------------------------
(* Media tracks.  tracks[i] is a MediaStreamTrack; a MediaStream is named by *)
(* the first track it was created with.  An entry that is stopped and that    *)
(* nothing refers to any more is given back to the pool.                      *)

FreeTrack == [kind |-> "free", stream |-> 0, live |-> FALSE, enabled |-> FALSE]

StopStreams(trk, ss) ==
    [i \in TrackIds |->
        IF trk[i].stream \in ss THEN [trk[i] EXCEPT !.live = FALSE] ELSE trk[i]]

VideoTrackOf(trk, stream) ==
    LET vs == {i \in TrackIds : trk[i].stream = stream /\ trk[i].kind = "video"}
    IN  IF stream = 0 \/ vs = {} THEN 0 ELSE CHOOSE i \in vs : \A j \in vs : i <= j

AudioTrackOf(trk, stream) ==
    LET as == {i \in TrackIds : trk[i].stream = stream /\ trk[i].kind = "audio"}
    IN  IF stream = 0 \/ as = {} THEN 0 ELSE CHOOSE i \in as : \A j \in as : i <= j

\* track.enabled = on for every track of the kind in the stream
EnableTracks(trk, stream, kind, on) ==
    [i \in TrackIds |->
        IF stream # 0 /\ trk[i].stream = stream /\ trk[i].kind = kind
        THEN [trk[i] EXCEPT !.enabled = on] ELSE trk[i]]

FreeIds(trk) == {i \in TrackIds : trk[i].kind = "free"}

Lowest(S) == CHOOSE i \in S : \A j \in S : i <= j

\* a new MediaStream with one track per kind
NewStream(trk, kinds) ==
    LET a == Lowest(FreeIds(trk))
        b == Lowest(FreeIds(trk) \ {a})
    IN  [i \in TrackIds |->
            IF i = a THEN [kind |-> kinds[1], stream |-> a, live |-> TRUE, enabled |-> TRUE]
            ELSE IF Len(kinds) = 2 /\ i = b
                 THEN [kind |-> kinds[2], stream |-> a, live |-> TRUE, enabled |-> TRUE]
                 ELSE trk[i]]

Referenced(r, s, p) ==
    {r.localStream, r.remoteStream, r.screenStream, r.originalVideoTrack,
     s.localStream, p.videoSender} \cup RemoteStreams(s)

Collect(trk, r, s, p) ==
    LET refs == Referenced(r, s, p)
        held(sid) == sid \in refs \/ \E j \in TrackIds : trk[j].stream = sid /\ trk[j].live
        keep(i) == trk[i].live \/ i \in refs \/ held(trk[i].stream) \/ held(i)
    IN  [i \in TrackIds |->
            IF ~keep(i) THEN FreeTrack
            ELSE IF held(trk[i].stream) THEN trk[i]
            ELSE \* the stream object is gone, the track outlives it
                 [trk[i] EXCEPT !.stream = 0]]

LiveTracks(trk) == {i \in TrackIds : trk[i].live}

---------------------------------------------------------------------------
(* lib/webrtc: the WebRTCService singleton *)

RtcInit ==
    [peerConnection |-> 0,
     localStream |-> 0,
     remoteStream |-> 0,
     screenStream |-> 0,
     callbacks |-> FALSE,
     pendingIceCandidates |-> <<>>,
     isInitiator |-> FALSE,
     remoteUserId |-> "none",
     callId |-> 0,
     callType |-> "audio",
     isScreenSharing |-> FALSE,
     originalVideoTrack |-> 0]

\* the RTCPeerConnection the service created last; closed before the first one.
\* leaked counts the connections created earlier that were never closed
NoPC ==
    [closed |-> TRUE, local |-> "none", remote |-> FALSE, applied |-> <<>>,
     videoSender |-> 0, leaked |-> 0]

NewPC(videoTrack) == [NoPC EXCEPT !.closed = FALSE, !.videoSender = videoTrack]

stopLocalStream(r) == [r EXCEPT !.localStream = 0]

\* RTCPeerConnection.setRemoteDescription succeeds only on an open connection in
\* the matching signaling state
CanSetRemote(p, what) ==
    /\ ~p.closed
    /\ ~p.remote
    /\ IF what = "answer" THEN p.local = "offer" ELSE p.local = "none"

\* a variant of createPeerConnection that does not close the connection it
\* replaces
createPeerConnection_NoClose(r, trk) ==
    [rtc |-> [r EXCEPT !.peerConnection = 1],
     pc |-> NewPC(VideoTrackOf(trk, r.localStream)),
     leaks |-> IF r.peerConnection # 0 THEN 1 ELSE 0,
     spins |-> r.pendingIceCandidates # <<>>]

\* createPeerConnection up to its replay loop: the previous connection is closed
\* (so none is left behind), the new one gets the local tracks
createPeerConnection(r, trk) ==
    [rtc |-> [r EXCEPT !.peerConnection = 1],
     pc |-> NewPC(VideoTrackOf(trk, r.localStream)),
     leaks |-> 0,
     \* the replay loop awaits addIceCandidate, which appends to the array the
     \* loop iterates while the new connection has no remote description
     spins |-> r.pendingIceCandidates # <<>>]

\* a variant of addIceCandidate in which a candidate the connection refuses
\* tears the connection down
addIceCandidate_Aborts(r, p, cand, ok) ==
    IF r.peerConnection = 0 \/ ~p.remote
    THEN [rtc |-> [r EXCEPT !.pendingIceCandidates = Append(@, cand)], pc |-> p]
    ELSE [rtc |-> r,
          pc |-> IF ok THEN [p EXCEPT !.applied = Append(@, cand)]
                 ELSE [p EXCEPT !.closed = TRUE]]

\* addIceCandidate: queue, or apply to the connection (a failure is swallowed)
addIceCandidate(r, p, cand, ok) ==
    IF r.peerConnection = 0 \/ ~p.remote
    THEN [rtc |-> [r EXCEPT !.pendingIceCandidates = Append(@, cand)], pc |-> p]
    ELSE [rtc |-> r,
          pc |-> IF ok THEN [p EXCEPT !.applied = Append(@, cand)] ELSE p]

\* a variant of stopScreenShareSync that re-acquires the camera whatever the
\* call type
stopScreenShareSync_AnyType(r, p, trk) ==
    LET trk1 == IF r.screenStream # 0 THEN StopStreams(trk, {r.screenStream}) ELSE trk
        r1 == [r EXCEPT !.screenStream = 0]
        done == [r1 EXCEPT !.isScreenSharing = FALSE, !.originalVideoTrack = 0]
    IN  IF r.peerConnection # 0 /\ r.originalVideoTrack # 0
        THEN IF p.videoSender # 0
             THEN [rtc |-> r1, tracks |-> trk1, suspend |-> "restore"]
             ELSE [rtc |-> done, tracks |-> trk1, suspend |-> "none"]
        ELSE IF r.peerConnection # 0
             THEN [rtc |-> r1, tracks |-> trk1, suspend |-> "camera"]
             ELSE [rtc |-> done, tracks |-> trk1, suspend |-> "none"]

\* stopScreenShare up to its first await; suspend names the await it stops at
stopScreenShareSync(r, p, trk) ==
    LET trk1 == IF r.screenStream # 0 THEN StopStreams(trk, {r.screenStream}) ELSE trk
        r1 == [r EXCEPT !.screenStream = 0]
        done == [r1 EXCEPT !.isScreenSharing = FALSE, !.originalVideoTrack = 0]
    IN  IF r.peerConnection # 0 /\ r.originalVideoTrack # 0
        THEN IF p.videoSender # 0
             THEN [rtc |-> r1, tracks |-> trk1, suspend |-> "restore"]
             ELSE [rtc |-> done, tracks |-> trk1, suspend |-> "none"]
        ELSE IF r.peerConnection # 0 /\ r.callType = "video"
             THEN [rtc |-> r1, tracks |-> trk1, suspend |-> "camera"]
             ELSE [rtc |-> done, tracks |-> trk1, suspend |-> "none"]

\* WebRTCService.endCall; a stopScreenShare it starts is not awaited
WebRTC_endCall(r, p, trk) ==
    LET ss == IF r.isScreenSharing
              THEN stopScreenShareSync(r, p, trk)
              ELSE [rtc |-> r, tracks |-> trk, suspend |-> "none"]
        r1 == ss.rtc
    IN  [rtc |-> [r1 EXCEPT !.localStream = 0,
                            !.remoteStream = 0,
                            !.peerConnection = 0,
                            !.pendingIceCandidates = <<>>,
                            !.isInitiator = FALSE,
                            !.remoteUserId = "none",
                            !.callId = 0,
                            !.originalVideoTrack = 0,
                            !.isScreenSharing = FALSE],
         pc |-> [NoPC EXCEPT !.leaked = p.leaked],
         tracks |-> StopStreams(ss.tracks, {r1.localStream, r1.remoteStream} \ {0}),
         suspend |-> ss.suspend]

---------------------------------------------------------------------------
(* Tasks: the suspended async functions, a bag of task records *)

One(t) == SetToBag({t})

Spawn(ts, t) == ts (+) One(t)

Done(ts, t) == ts (-) One(t)

Room(ts, n) == BagCardinality(ts) + n <= MaxTasks

NegotiationSteps ==
    {"createOffer", "setLocalDescription", "setRemoteDescription", "createAnswer",
     "setLocalAnswer"}

\* the task is suspended at an await on the RTCPeerConnection
AwaitsConnection(t) ==
    \/ t.kind = "handleAnswer"
    \/ t.kind = "initializeCall" /\ t.at \in NegotiationSteps
    \/ t.kind = "stopScreenShare" /\ t.at \in {"restore", "replaceCamera"}
    \/ t.kind = "startScreenShare" /\ t.at = "replaceTrack"

\* a promise of a connection that is closed meanwhile is never settled: the
\* tasks awaiting it never resume
Abandon(ts) ==
    LET keep == {t \in DOMAIN ts : ~AwaitsConnection(t)}
    IN  [t \in keep |-> ts[t]]

OtherUser(call) == IF call.caller = Me THEN call.callee ELSE call.caller

---------------------------------------------------------------------------
(* State *)

VcsInit == [mounted |-> FALSE, isInitialized |-> FALSE, firstCall |-> NoCall,
            deps |-> <<>>]

---------------------------------------------------------------------------
(* lib/socket: the SocketService singleton and the socket.io Sockets it makes *)

\* the events of the on<Event> subscriptions that are followed
SocketEvents == {"call-accepted", "call-ended"}

\* a Socket as io() returns it: not connected yet, no handler
NewSocket == [connected |-> FALSE, handlers |-> {}, closed |-> FALSE]

\* socket: the service's current Socket, an index into made (0 for null);
\* made: the Sockets io() has returned so far; registered: the events whose
\* on<Event> subscription was made and whose cleanup has not run
SocketInit == [socket |-> 0, made |-> <<>>, registered |-> {}]

isConnected(s) == s.socket # 0 /\ s.made[s.socket].connected

\* SocketService.connect: the current socket if it is connected, else a new one
connect(s) ==
    IF isConnected(s) THEN s
    ELSE [s EXCEPT !.made = Append(@, NewSocket), !.socket = Len(s.made) + 1]

\* SocketService.disconnect: the current socket is closed for good and
\* forgotten (the listeners map it clears is never filled)
disconnect(s) ==
    IF s.socket = 0 THEN s
    ELSE [s EXCEPT !.made[s.socket].connected = FALSE,
                   !.made[s.socket].closed = TRUE,
                   !.socket = 0]

\* this.socket?.on(event, callback)
on(s, ev) ==
    IF s.socket = 0 THEN s
    ELSE [s EXCEPT !.made[s.socket].handlers = @ \cup {ev}]

\* this.socket?.off(event, callback)
off(s, ev) ==
    IF s.socket = 0 THEN s
    ELSE [s EXCEPT !.made[s.socket].handlers = @ \ {ev}]

\* the handlers an event arriving on the service's current socket reaches
Attached(s) == IF s.socket = 0 THEN {} ELSE s.made[s.socket].handlers

\* authStore login / register: socketService.connect(token)
login ==
    /\ isConnected(socketService) \/ Len(socketService.made) < MaxSockets
    /\ socketService' = connect(socketService)
    /\ UNCHANGED callVars

\* authStore fetchUser: connect if not connected
fetchUser ==
    /\ isConnected(socketService) \/ Len(socketService.made) < MaxSockets
    /\ socketService' = IF ~isConnected(socketService) THEN connect(socketService)
                        ELSE socketService
    /\ UNCHANGED callVars

\* authStore logout, and the SocketProvider effect of a signed-out session:
\* socketService.disconnect()
logout ==
    /\ socketService.socket # 0
    /\ socketService' = disconnect(socketService)
    /\ UNCHANGED callVars

\* a component subscribes with on<Event> and keeps the cleanup
onEvent(ev) ==
    /\ ev \notin socketService.registered
    /\ socketService' = [on(socketService, ev) EXCEPT !.registered = @ \cup {ev}]
    /\ UNCHANGED callVars

\* the cleanup on<Event> returned runs
cleanup(ev) ==
    /\ ev \in socketService.registered
    /\ socketService' = [off(socketService, ev) EXCEPT !.registered = @ \ {ev}]
    /\ UNCHANGED callVars

\* the transport of a Socket connects, or reconnects after a drop; the Socket
\* keeps its handlers
SocketConnected(i) ==
    /\ ~socketService.made[i].connected
    /\ ~socketService.made[i].closed
    /\ socketService' = [socketService EXCEPT !.made[i].connected = TRUE]
    /\ UNCHANGED callVars

\* the transport of a Socket drops
SocketDisconnected(i) ==
    /\ socketService.made[i].connected
    /\ socketService' = [socketService EXCEPT !.made[i].connected = FALSE]
    /\ UNCHANGED callVars

NextSocket ==
    \/ login
    \/ fetchUser
    \/ \E ev \in SocketEvents : onEvent(ev)
    \/ \E ev \in SocketEvents : cleanup(ev)
    \/ \E i \in DOMAIN socketService.made : SocketConnected(i)
    \/ \E i \in DOMAIN socketService.made : SocketDisconnected(i)

\* what checkWebRTCSupport reads of the page it runs in
Environments ==
    [isSecureContext : BOOLEAN,
     hostname : {"localhost", "127.0.0.1", "lan"},
     getUserMedia : BOOLEAN,
     RTCPeerConnection : BOOLEAN]

\* a variant of checkWebRTCSupport that accepts every environment
checkWebRTCSupport_Lenient(env) == [supported |-> TRUE, error |-> "none"]

checkWebRTCSupport(env) ==
    IF ~env.isSecureContext /\ env.hostname \notin {"localhost", "127.0.0.1"}
    THEN [supported |-> FALSE, error |-> "requires HTTPS"]
    ELSE IF ~env.getUserMedia
    THEN [supported |-> FALSE, error |-> "browser does not support WebRTC"]
    ELSE IF ~env.RTCPeerConnection
    THEN [supported |-> FALSE, error |-> "not fully supported"]
    ELSE [supported |-> TRUE, error |-> "none"]

\* the onError callback takes a message that mentions HTTPS, localhost or
\* secure for a secure-context error and schedules handleEndCall
isSecureContextError(error) == error = "requires HTTPS"

InitIn(env) ==
    /\ platform = env
    /\ store = StoreInit
    /\ rtc = RtcInit
    /\ vcs = VcsInit
    /\ tasks = EmptyBag
    /\ pc = NoPC
    /\ tracks = [i \in TrackIds |-> FreeTrack]
    /\ nextCall = 1
    /\ nCand = 0
    /\ hung = FALSE
    /\ last = NoLast
    /\ socketService = SocketInit

\* the page is served from localhost to a browser with WebRTC
Init ==
    InitIn([isSecureContext |-> TRUE, hostname |-> "localhost",
            getUserMedia |-> TRUE, RTCPeerConnection |-> TRUE])

\* the dependency list of the initializeCall effect
Deps(s, v) == <<s.activeCall, s.callType, s.callSignal, v.isInitialized>>

\* a store change not yet rendered: page.tsx mounts VideoCallScreen iff isCallActive
Dirty ==
    \/ vcs.mounted # store.isCallActive
    \/ vcs.mounted /\ vcs.deps # Deps(store, vcs)

Ready == ~hung /\ ~Dirty

NonIdle(s) == s.isCallActive \/ s.incomingCall # NoCall

Msg(ev, to, callId) == [ev |-> ev, to |-> to, callId |-> callId]

\* what the step showed (toasts), sent (emitted) and ended; a step that did none
\* of these leaves no note
Note(ev, callId, toasts, ended, emitted, stale) ==
    IF toasts = 0 /\ ended = 0 /\ emitted = {} /\ ~stale THEN NoLast
    ELSE [ev |-> ev, callId |-> callId, toasts |-> toasts, ended |-> ended,
          emitted |-> emitted, stale |-> stale]

\* 1 when the step takes the call store from a started call back to idle
\* the call the task works for is no longer the store's call: it was ended
\* or replaced
Superseded(t) == t.call.id # store.activeCall.id

Ended(s1, s2) == IF s1.isCallActive /\ ~s2.isCallActive THEN 1 ELSE 0

KnownCalls == 1..(nextCall - 1)

\* the tracks after the step, unreferenced stopped ones returned to the pool; a
\* track a pending replaceTrack was called with is still referenced
Tracks(trk) ==
    LET awaited == {t.arg : t \in {u \in DOMAIN tasks' :
                                     u.kind \in {"startScreenShare", "stopScreenShare"}}}
        swept == Collect(trk, rtc', store', pc')
    IN  tracks' = [i \in TrackIds |-> IF i \in awaited THEN trk[i] ELSE swept[i]]

---------------------------------------------------------------------------
(* SocketProvider.tsx *)

\* a variant of handleIncomingCallSignal without the busy branch
handleIncomingCallSignal_Rings(from, type) ==
    LET callId == nextCall
        data == [id |-> callId, caller |-> from, callee |-> Me, type |-> type]
    IN  /\ Ready
        /\ UNCHANGED <<socketService, platform>>
        /\ nextCall <= MaxCalls
        /\ nextCall' = nextCall + 1
        /\ store' = setIncomingCall(store, data)
        /\ last' = Note("incoming-call-signal", callId, 1, 0, {}, FALSE)
        /\ UNCHANGED <<rtc, vcs, tasks, pc, tracks, nCand, hung>>

handleIncomingCallSignal(from, type) ==
    LET callId == nextCall
        data == [id |-> callId, caller |-> from, callee |-> Me, type |-> type]
    IN  /\ Ready
        /\ UNCHANGED <<socketService, platform>>
        /\ nextCall <= MaxCalls
        /\ nextCall' = nextCall + 1
        /\ IF store.isCallActive
           THEN /\ store' = store
                /\ last' = Note("incoming-call-signal", callId, 0, 0,
                                {Msg("user-busy", from, callId)}, FALSE)
           ELSE /\ store' = setIncomingCall(store, data)
                /\ last' = Note("incoming-call-signal", callId, 1, 0, {}, FALSE)
        /\ UNCHANGED <<rtc, vcs, tasks, pc, tracks, nCand, hung>>

---------------------------------------------------------------------------
(* ChatWindow: handleInitiateCall *)

Task(kind, at, call) == [NoTask EXCEPT !.kind = kind, !.at = at, !.call = call]

ClickCall(callee, type) ==
    /\ Ready
    /\ UNCHANGED <<socketService, platform>>
    /\ ~store.isCallActive /\ store.incomingCall = NoCall
    /\ nextCall <= MaxCalls
    /\ Room(tasks, 1)
    /\ tasks' = Spawn(tasks, Task("handleInitiateCall", "rest",
                         [id |-> 0, caller |-> Me, callee |-> callee, type |-> type]))
    /\ last' = NoLast
    /\ UNCHANGED <<store, rtc, vcs, pc, tracks, nextCall, nCand, hung>>

\* a variant of handleInitiateCall that starts the call UI although the request
\* failed
handleInitiateCall_StartsAnyway(t, ok) ==
    LET data == [t.call EXCEPT !.id = nextCall]
    IN  /\ Ready
        /\ UNCHANGED <<socketService, platform>>
        /\ t.kind = "handleInitiateCall"
        /\ tasks' = Done(tasks, t)
        /\ IF ok /\ nextCall <= MaxCalls
           THEN /\ store' = startCall(setActiveCall(store, data), t.call.type)
                /\ nextCall' = nextCall + 1
                /\ last' = NoLast
           ELSE /\ store' = startCall(store, t.call.type)
                /\ nextCall' = nextCall
                /\ last' = Note("initiate-failed", 0, 1, 0, {}, FALSE)
        /\ UNCHANGED <<rtc, vcs, pc, tracks, nCand, hung>>

handleInitiateCall(t, ok) ==
    LET data == [t.call EXCEPT !.id = nextCall]
    IN  /\ Ready
        /\ UNCHANGED <<socketService, platform>>
        /\ t.kind = "handleInitiateCall"
        /\ tasks' = Done(tasks, t)
        /\ IF ok /\ nextCall <= MaxCalls
           THEN /\ store' = startCall(setActiveCall(store, data), t.call.type)
                /\ nextCall' = nextCall + 1
                /\ last' = NoLast
           ELSE /\ store' = store
                /\ nextCall' = nextCall
                /\ last' = Note("initiate-failed", 0, 1, 0, {}, FALSE)
        /\ UNCHANGED <<rtc, vcs, pc, tracks, nCand, hung>>

---------------------------------------------------------------------------
(* IncomingCallModal.tsx *)

ClickAccept ==
    /\ Ready
    /\ UNCHANGED <<socketService, platform>>
    /\ store.incomingCall # NoCall
    /\ Room(tasks, 1)
    /\ tasks' = Spawn(tasks, Task("handleAccept", "rest", store.incomingCall))
    /\ last' = NoLast
    /\ UNCHANGED <<store, rtc, vcs, pc, tracks, nextCall, nCand, hung>>

\* a variant of handleAccept that starts the call although the accept request
\* failed
handleAccept_StartsAnyway(t, ok) ==
    /\ Ready
    /\ UNCHANGED <<socketService, platform>>
    /\ t.kind = "handleAccept"
    /\ tasks' = Done(tasks, t)
    /\ store' = setIncomingCall(startCall(setActiveCall(store, t.call), t.call.type),
                                NoCall)
    /\ last' = IF ok THEN NoLast ELSE Note("accept-failed", t.call.id, 1, 0, {}, FALSE)
    /\ UNCHANGED <<rtc, vcs, pc, tracks, nextCall, nCand, hung>>

handleAccept(t, ok) ==
    /\ Ready
    /\ UNCHANGED <<socketService, platform>>
    /\ t.kind = "handleAccept"
    /\ tasks' = Done(tasks, t)
    /\ IF ok
       THEN /\ store' = setIncomingCall(
                            startCall(setActiveCall(store, t.call), t.call.type),
                            NoCall)
            /\ last' = NoLast
       ELSE /\ store' = setIncomingCall(store, NoCall)
            /\ last' = Note("accept-failed", t.call.id, 1, 0, {}, FALSE)
    /\ UNCHANGED <<rtc, vcs, pc, tracks, nextCall, nCand, hung>>

ClickReject ==
    /\ Ready
    /\ UNCHANGED <<socketService, platform>>
    /\ store.incomingCall # NoCall
    /\ Room(tasks, 1)
    /\ tasks' = Spawn(tasks, Task("handleReject", "rest", store.incomingCall))
    /\ last' = NoLast
    /\ UNCHANGED <<store, rtc, vcs, pc, tracks, nextCall, nCand, hung>>

handleReject(t, ok) ==
    LET out == IF ok THEN {Msg("reject-call", t.call.caller, t.call.id)} ELSE {}
    IN  /\ Ready
        /\ UNCHANGED <<socketService, platform>>
        /\ t.kind = "handleReject"
        /\ tasks' = Done(tasks, t)
        /\ store' = setIncomingCall(store, NoCall)
        /\ last' = Note("reject-done", t.call.id, 0, 0, out, FALSE)
        /\ UNCHANGED <<rtc, vcs, pc, tracks, nextCall, nCand, hung>>

---------------------------------------------------------------------------
(* VideoCallScreen: mount, unmount and the initializeCall effect *)

\* after an unmount no task belongs to a mounted component instance
OrphanTask(t) == [t EXCEPT !.inst = FALSE]

Orphan(ts) ==
    [r \in {OrphanTask(t) : t \in DOMAIN ts} |->
        BagCardinality([t \in {x \in DOMAIN ts : OrphanTask(x) = r} |-> ts[t]])]

\* initiateCall / acceptCall up to the await of getUserMedia in initializeMedia
StartNegotiation(r, call, initiator) ==
    [stopLocalStream(r) EXCEPT !.isInitiator = initiator,
                                !.remoteUserId = OtherUser(call),
                                !.callId = call.id,
                                !.callType = call.type]

Render ==
    /\ ~hung
    /\ Dirty
    /\ UNCHANGED <<socketService, platform>>
    /\ UNCHANGED <<store, pc, nextCall, nCand, hung>>
    /\ IF ~store.isCallActive
       THEN /\ vcs' = VcsInit
            /\ rtc' = [rtc EXCEPT !.callbacks = FALSE]
            /\ tasks' = Orphan(tasks)
            /\ last' = NoLast
            /\ Tracks(tracks)
       ELSE LET v0 == IF vcs.mounted THEN vcs
                      ELSE [VcsInit EXCEPT !.mounted = TRUE,
                                           !.firstCall = store.activeCall]
                r0 == [rtc EXCEPT !.callbacks = TRUE]
                run == /\ store.activeCall # NoCall
                       /\ store.callType # "none"
                       /\ ~v0.isInitialized
                call == [store.activeCall EXCEPT !.type = store.callType]
                isInitiator == call.caller = Me
                support == checkWebRTCSupport(platform)
                timer == [Task("timer", "wait", v0.firstCall) EXCEPT !.inst = TRUE]
            IN  IF run /\ (isInitiator \/ store.callSignal # 0)
                THEN IF support.supported
                     THEN /\ Room(tasks, 1)
                          /\ rtc' = StartNegotiation(r0, call, isInitiator)
                          /\ tasks' = Spawn(tasks,
                                 [Task("initializeCall", "media", call) EXCEPT
                                     !.inst = TRUE, !.arg = store.callSignal])
                          /\ vcs' = [v0 EXCEPT !.deps = Deps(store, v0)]
                          /\ last' = NoLast
                          /\ Tracks(StopStreams(tracks, {r0.localStream} \ {0}))
                     ELSE \* initializeMedia throws before it touches the streams:
                          \* onError in initializeMedia and in initiateCall /
                          \* acceptCall, then the toast of initializeCall
                          /\ isSecureContextError(support.error) => Room(tasks, 2)
                          /\ rtc' = [StartNegotiation(r0, call, isInitiator) EXCEPT
                                        !.localStream = r0.localStream]
                          /\ tasks' = IF isSecureContextError(support.error)
                                      THEN Spawn(Spawn(tasks, timer), timer)
                                      ELSE tasks
                          /\ vcs' = [v0 EXCEPT !.deps = Deps(store, v0)]
                          /\ last' = Note("unsupported", call.id, 3, 0, {}, FALSE)
                          /\ Tracks(tracks)
                ELSE LET v1 == [v0 EXCEPT !.isInitialized = @ \/ run]
                     IN  /\ vcs' = [v1 EXCEPT !.deps = Deps(store, v1)]
                         /\ rtc' = r0
                         /\ tasks' = tasks
                         /\ last' = NoLast
                         /\ Tracks(tracks)

\* setIsInitialized acts on the component instance that started the task
setIsInitialized(v, t, b) == IF t.inst THEN [v EXCEPT !.isInitialized = b] ELSE v

MediaKinds(type) == IF type = "video" THEN <<"audio", "video">> ELSE <<"audio">>

\* getUserMedia resolves in initializeMedia; initiateCall / acceptCall go on through
\* createPeerConnection to their next await
MediaResolve(t) ==
    LET kinds == MediaKinds(t.call.type)
        trk1 == NewStream(tracks, kinds)
        sid == Lowest(FreeIds(tracks))
        r1 == [rtc EXCEPT !.localStream = sid, !.callType = t.call.type]
        cp == createPeerConnection(r1, trk1)
        step == IF cp.spins THEN "replay"
                ELSE IF t.call.caller = Me THEN "createOffer"
                ELSE "setRemoteDescription"
    IN  /\ Ready
        /\ UNCHANGED <<socketService, platform>>
        /\ t.kind = "initializeCall" /\ t.at = "media"
        /\ Cardinality(FreeIds(tracks)) >= Len(kinds)
        /\ store' = IF rtc.callbacks THEN setLocalStream(store, sid) ELSE store
        /\ rtc' = cp.rtc
        /\ pc' = [cp.pc EXCEPT !.leaked = pc.leaked + cp.leaks]
        /\ hung' = cp.spins
        /\ tasks' = Spawn(Abandon(Done(tasks, t)), [t EXCEPT !.at = step])
        /\ last' = Note("media-resolved", t.call.id, 0, 0, {}, Superseded(t))
        /\ UNCHANGED <<vcs, nextCall, nCand>>
        /\ Tracks(trk1)

ErrorKinds == {"denied", "insecure"}

\* a variant of MediaReject: initiateCall swallows the failure and goes on to
\* createPeerConnection
MediaReject_GoesOn(t, kind) ==
    LET cp == createPeerConnection(rtc, tracks)
    IN  /\ Ready
        /\ UNCHANGED <<socketService, platform>>
        /\ t.kind = "initializeCall" /\ t.at = "media"
        /\ rtc' = cp.rtc
        /\ pc' = [cp.pc EXCEPT !.leaked = pc.leaked + cp.leaks]
        /\ hung' = cp.spins
        /\ tasks' = Spawn(Abandon(Done(tasks, t)), [t EXCEPT !.at = "createOffer"])
        /\ last' = Note("device-" \o kind, t.call.id,
                        IF rtc.callbacks THEN 1 ELSE 0, 0, {}, Superseded(t))
        /\ UNCHANGED <<store, vcs, nextCall, nCand>>
        /\ Tracks(tracks)

\* getUserMedia rejects: initializeMedia and initiateCall / acceptCall each report
\* to onError and rethrow, initializeCall shows its own toast
MediaReject(t, kind) ==
    LET timer == [Task("timer", "wait", vcs.firstCall) EXCEPT !.inst = TRUE]
        rest == Done(tasks, t)
        secure == rtc.callbacks /\ kind = "insecure"
    IN  /\ Ready
        /\ UNCHANGED <<socketService, platform>>
        /\ t.kind = "initializeCall" /\ t.at = "media"
        /\ secure => Room(rest, 2)
        /\ tasks' = IF secure THEN Spawn(Spawn(rest, timer), timer) ELSE rest
        /\ last' = Note("device-" \o kind, t.call.id,
                        (IF rtc.callbacks THEN 2 ELSE 0) + 1, 0, {}, Superseded(t))
        /\ UNCHANGED <<store, rtc, vcs, pc, tracks, nextCall, nCand, hung>>

\* the offer initiateCall asks the connection for
createOffer(type) ==
    [type |-> "offer", offerToReceiveAudio |-> TRUE,
     offerToReceiveVideo |-> (type = "video")]

\* socketService.callUser: the call-user message
callUser(userToCall, signalData, callType, callId) ==
    [ev |-> "call-user", to |-> userToCall, callId |-> callId,
     callType |-> callType, signalData |-> signalData]

\* whether the awaited RTCPeerConnection call can succeed
CanSettle(t) ==
    /\ ~pc.closed
    /\ t.at = "setRemoteDescription" => CanSetRemote(pc, "offer")
    /\ t.at = "createAnswer" => pc.remote

\* an awaited negotiation call of initiateCall / acceptCall resolves
NegotiateOk(t) ==
    LET final == t.at \in {"setLocalDescription", "setLocalAnswer"}
        out == IF t.at = "setLocalDescription"
               THEN {callUser(OtherUser(t.call), createOffer(t.call.type),
                              t.call.type, t.call.id)}
               ELSE IF t.at = "setLocalAnswer"
               THEN {Msg("answer-call", OtherUser(t.call), t.call.id)}
               ELSE {}
        next == CASE t.at = "createOffer" -> "setLocalDescription"
                  [] t.at = "setRemoteDescription" -> "createAnswer"
                  [] OTHER -> "setLocalAnswer"
    IN  /\ Ready
        /\ UNCHANGED <<socketService, platform>>
        /\ t.kind = "initializeCall" /\ t.at \in NegotiationSteps
        /\ CanSettle(t)
        /\ pc' = CASE t.at = "setLocalDescription" -> [pc EXCEPT !.local = "offer"]
                   [] t.at = "setLocalAnswer" -> [pc EXCEPT !.local = "answer"]
                   [] t.at = "setRemoteDescription" -> [pc EXCEPT !.remote = TRUE]
                   [] OTHER -> pc
        /\ tasks' = IF final THEN Done(tasks, t)
                    ELSE Spawn(Done(tasks, t), [t EXCEPT !.at = next])
        /\ vcs' = IF final THEN setIsInitialized(vcs, t, TRUE) ELSE vcs
        /\ last' = Note("negotiated", t.call.id, 0, 0, out, Superseded(t))
        /\ UNCHANGED <<store, rtc, tracks, nextCall, nCand, hung>>

\* it rejects: onError, rethrow, initializeCall's toast
NegotiateFail(t) ==
    /\ Ready
    /\ UNCHANGED <<socketService, platform>>
    /\ t.kind = "initializeCall" /\ t.at \in NegotiationSteps
    /\ tasks' = Done(tasks, t)
    /\ last' = Note("negotiation-error", t.call.id,
                    (IF rtc.callbacks THEN 1 ELSE 0) + 1, 0, {}, Superseded(t))
    /\ UNCHANGED <<store, rtc, vcs, pc, tracks, nextCall, nCand, hung>>

---------------------------------------------------------------------------
(* VideoCallScreen: handleEndCall *)

\* handleEndCall up to its await of callsApi.endCall; call is the activeCall of
\* the render the calling closure belongs to
EndTask(call) == [Task("handleEndCall", "rest", call) EXCEPT !.inst = TRUE]

\* the hang-up button of the call screen
ClickEndCall ==
    /\ Ready
    /\ UNCHANGED <<socketService, platform>>
    /\ vcs.mounted
    /\ store.incomingCall = NoCall
    /\ Room(tasks, 1)
    /\ tasks' = Spawn(tasks, EndTask(store.activeCall))
    /\ last' = NoLast
    /\ UNCHANGED <<store, rtc, vcs, pc, tracks, nextCall, nCand, hung>>

\* setTimeout(() => handleEndCall(), 2000) of the onError callback expires
TimerFire(t) ==
    /\ Ready
    /\ UNCHANGED <<socketService, platform>>
    /\ t.kind = "timer"
    /\ tasks' = Spawn(Done(tasks, t), [EndTask(t.call) EXCEPT !.inst = t.inst])
    /\ last' = NoLast
    /\ UNCHANGED <<store, rtc, vcs, pc, tracks, nextCall, nCand, hung>>

\* a stopScreenShare suspended at an await; call is the activeCall of the
\* handleToggleScreenShare that awaits it, NoCall when nothing awaits it
StopShareTask(suspend, call, track) ==
    [Task("stopScreenShare", suspend, call) EXCEPT !.arg = track]

\* callsApi.endCall settles; the rest of handleEndCall
handleEndCall(t, ok) ==
    LET out == IF ok /\ t.call # NoCall
               THEN {Msg("end-call", OtherUser(t.call), t.call.id)}
               ELSE {}
        ec == WebRTC_endCall(rtc, pc, tracks)
        rest == Abandon(Done(tasks, t))
    IN  /\ Ready
        /\ UNCHANGED <<socketService, platform>>
        /\ t.kind = "handleEndCall"
        /\ rtc' = ec.rtc
        /\ pc' = ec.pc
        /\ vcs' = setIsInitialized(vcs, t, FALSE)
        /\ store' = Store_endCall(store)
        /\ tasks' = IF ec.suspend = "camera" THEN Spawn(rest, StopShareTask("camera", NoCall, 0))
                    ELSE rest
        /\ last' = Note("hangup", t.call.id, 0, Ended(store, store'), out, FALSE)
        /\ UNCHANGED <<nextCall, nCand, hung>>
        /\ Tracks(StopStreams(ec.tracks, StoreStreams(store)))

---------------------------------------------------------------------------
(* The socket events that end a call.  One dispatch runs SocketProvider's    *)
(* listener and the listener of a mounted VideoCallScreen.                   *)

RemoteTermination(ev, callId, spEnds, vcsHandles) ==
    LET s1 == IF spEnds THEN Store_endCall(store) ELSE store
        trk1 == IF spEnds THEN StopStreams(tracks, StoreStreams(store)) ELSE tracks
        screen == vcs.mounted /\ vcsHandles
        toasts == (IF spEnds THEN 1 ELSE 0) + (IF screen THEN 1 ELSE 0)
    IN  /\ Ready
        /\ UNCHANGED <<socketService, platform>>
        /\ screen => Room(tasks, 1)
        /\ store' = s1
        /\ tasks' = IF screen THEN Spawn(tasks, EndTask(vcs.firstCall)) ELSE tasks
        /\ last' = Note(ev, callId, toasts, Ended(store, s1), {}, FALSE)
        /\ UNCHANGED <<rtc, vcs, pc, nextCall, nCand, hung>>
        /\ Tracks(trk1)

handleCallEnded(callId) ==
    RemoteTermination("call-ended", callId,
                      store.activeCall.id = callId \/ store.activeCall = NoCall, TRUE)

\* the three handlers below do not look at the event's payload
handleCallRejected == RemoteTermination("call-rejected", 0, TRUE, TRUE)

\* VideoCallScreen registers no listener for user-busy
handleUserBusy == RemoteTermination("user-busy", 0, TRUE, FALSE)

handleUserUnavailable == RemoteTermination("user-unavailable", 0, TRUE, TRUE)

---------------------------------------------------------------------------
(* VideoCallScreen: call-accepted and ice-candidate; the connection's events *)

\* handleAnswer up to its await of setRemoteDescription
handleCallAccepted ==
    /\ Ready
    /\ UNCHANGED <<socketService, platform>>
    /\ vcs.mounted
    /\ rtc.peerConnection # 0 => Room(tasks, 1)
    /\ tasks' = IF rtc.peerConnection = 0 THEN tasks
                ELSE Spawn(tasks, Task("handleAnswer", "setRemoteDescription",
                                       [NoCall EXCEPT !.id = rtc.callId]))
    /\ last' = NoLast
    /\ UNCHANGED <<store, rtc, vcs, pc, tracks, nextCall, nCand, hung>>

\* setRemoteDescription(answer) settles; pendingIceCandidates is not looked at
handleAnswer(t, ok) ==
    LET succ == ok /\ CanSetRemote(pc, "answer")
    IN  /\ Ready
        /\ UNCHANGED <<socketService, platform>>
        /\ t.kind = "handleAnswer"
        /\ tasks' = Done(tasks, t)
        /\ pc' = IF succ THEN [pc EXCEPT !.remote = TRUE] ELSE pc
        /\ last' = Note("answer-set", t.call.id,
                        IF ~succ /\ rtc.callbacks THEN 1 ELSE 0, 0, {}, Superseded(t))
        /\ UNCHANGED <<store, rtc, vcs, tracks, nextCall, nCand, hung>>

\* an ice-candidate event; candidates are numbered in receipt order.  Only a
\* mounted VideoCallScreen listens
IceCandidateEvent(ok, limit) ==
    LET cand == nCand + 1
        ic == addIceCandidate(rtc, pc, cand, ok)
    IN  /\ Ready
        /\ UNCHANGED <<socketService, platform>>
        /\ nCand < limit
        /\ nCand' = cand
        /\ rtc' = IF vcs.mounted THEN ic.rtc ELSE rtc
        /\ pc' = IF vcs.mounted THEN ic.pc ELSE pc
        /\ last' = NoLast
        /\ UNCHANGED <<store, vcs, tasks, tracks, nextCall, hung>>

handleIceCandidate(ok) == IceCandidateEvent(ok, MaxCand)

\* both descriptions are set
Negotiated(p) == ~p.closed /\ p.remote /\ p.local # "none"

\* the first track event of the connection
ontrack ==
    LET sid == Lowest(FreeIds(tracks))
    IN  /\ Ready
        /\ UNCHANGED <<socketService, platform>>
        /\ Negotiated(pc)
        /\ rtc.remoteStream = 0
        /\ FreeIds(tracks) # {}
        /\ rtc' = [rtc EXCEPT !.remoteStream = sid]
        /\ store' = IF rtc.callbacks THEN addRemoteStream(store, rtc.remoteUserId, sid)
                    ELSE store
        /\ last' = NoLast
        /\ UNCHANGED <<vcs, tasks, pc, nextCall, nCand, hung>>
        /\ Tracks(NewStream(tracks, <<"audio">>))

\* a variant of onconnectionstatechange that treats "disconnected" as the end of
\* the call
onconnectionstatechange_Ends(state) ==
    /\ Ready
    /\ UNCHANGED <<socketService, platform>>
    /\ Negotiated(pc)
    /\ rtc.callbacks
    /\ store.connectionState # state
    /\ store' = IF state = "disconnected" THEN Store_endCall(store)
                 ELSE setConnectionState(store, state)
    /\ last' = Note("connection-" \o state, rtc.callId, 0, Ended(store, store'), {}, FALSE)
    /\ UNCHANGED <<rtc, vcs, tasks, pc, tracks, nextCall, nCand, hung>>

onconnectionstatechange(state) ==
    /\ Ready
    /\ UNCHANGED <<socketService, platform>>
    /\ Negotiated(pc)
    /\ rtc.callbacks
    /\ store.connectionState # state
    /\ store' = setConnectionState(store, state)
    /\ last' = Note("connection-" \o state, rtc.callId, 0, 0, {}, FALSE)
    /\ UNCHANGED <<rtc, vcs, tasks, pc, tracks, nextCall, nCand, hung>>

---------------------------------------------------------------------------
(* VideoCallScreen: the mute and video buttons *)

\* WebRTCService.toggleMute: flips the first audio track of the service's stream
\* and returns the new muted state; false without a stream or track
WebRTC_toggleMute(r, trk) ==
    LET a == AudioTrackOf(trk, r.localStream)
    IN  IF a = 0 THEN [tracks |-> trk, ret |-> FALSE]
        ELSE [tracks |-> [trk EXCEPT ![a].enabled = ~@], ret |-> trk[a].enabled]

\* WebRTCService.toggleVideo: flips the first video track and returns its new
\* enabled state; true without a stream or track, or while sharing the screen
WebRTC_toggleVideo(r, trk) ==
    LET v == VideoTrackOf(trk, r.localStream)
    IN  IF v = 0 \/ r.isScreenSharing THEN [tracks |-> trk, ret |-> TRUE]
        ELSE [tracks |-> [trk EXCEPT ![v].enabled = ~@], ret |-> ~trk[v].enabled]

\* the mute button; the component is covered by the incoming-call modal while an
\* incoming call is pending
handleToggleMute ==
    LET tm == WebRTC_toggleMute(rtc, tracks)
    IN  /\ Ready
        /\ UNCHANGED <<socketService, platform>>
        /\ vcs.mounted
        /\ store.incomingCall = NoCall
        /\ store' = setMuted(store, tm.ret)
        /\ last' = NoLast
        /\ UNCHANGED <<rtc, vcs, tasks, pc, nextCall, nCand, hung>>
        /\ Tracks(EnableTracks(tm.tracks, store.localStream, "audio", ~tm.ret))

\* the video button: rendered for video calls, disabled while sharing the screen
handleToggleVideo ==
    LET tv == WebRTC_toggleVideo(rtc, tracks)
    IN  /\ Ready
        /\ UNCHANGED <<socketService, platform>>
        /\ vcs.mounted
        /\ store.incomingCall = NoCall
        /\ store.callType = "video"
        /\ ~store.isScreenSharing
        /\ store' = setVideoEnabled(store, tv.ret)
        /\ last' = NoLast
        /\ UNCHANGED <<rtc, vcs, tasks, pc, nextCall, nCand, hung>>
        /\ Tracks(EnableTracks(tv.tracks, store.localStream, "video", tv.ret))

---------------------------------------------------------------------------
(* VideoCallScreen: the duration timer *)

\* a variant of DurationTimerOn whose effect does not look at connectionState
DurationTimerOn_AnyState(s, v) == v.mounted /\ s.isCallActive

\* the interval of the duration effect exists while the component is mounted and
\* the render it belongs to saw isCallActive and connectionState 'connected'; the
\* effect's cleanup clears it when either changes
DurationTimerOn(s, v) == v.mounted /\ s.isCallActive /\ s.connectionState = "connected"

\* the interval expires: incrementDuration
DurationTick ==
    /\ Ready
    /\ UNCHANGED <<socketService, platform>>
    /\ DurationTimerOn(store, vcs)
    /\ store.callDuration < MaxDuration
    /\ store' = incrementDuration(store)
    /\ last' = NoLast
    /\ UNCHANGED <<rtc, vcs, tasks, pc, tracks, nextCall, nCand, hung>>

---------------------------------------------------------------------------
(* Screen sharing: handleToggleScreenShare, startScreenShare, stopScreenShare *)

\* what handleToggleScreenShare does after its await of stopScreenShare
ToggleDone(s, r) ==
    LET s1 == setScreenSharing(s, FALSE)
    IN  IF r.localStream # 0 THEN setLocalStream(s1, r.localStream) ELSE s1

\* handleToggleScreenShare up to its first await, in a call screen whose
\* controls show the screen-share button for the call types given
ToggleScreenShare(types) ==
    LET ss == stopScreenShareSync(rtc, pc, tracks)
        out == {Msg("screen-share-stopped", "room", store.activeCall.id)}
        support == checkWebRTCSupport(platform)
        timer == [Task("timer", "wait", vcs.firstCall) EXCEPT !.inst = TRUE]
    IN  /\ Ready
        /\ UNCHANGED <<socketService, platform>>
        /\ vcs.mounted
        /\ store.incomingCall = NoCall
        /\ store.callType \in types
        /\ Room(tasks, 1)
        /\ UNCHANGED <<vcs, pc, nextCall, nCand, hung>>
        /\ IF ~store.isScreenSharing
           THEN /\ IF support.supported
                   THEN /\ tasks' = Spawn(tasks, Task("startScreenShare", "display",
                                                      store.activeCall))
                        /\ last' = NoLast
                   ELSE \* startScreenShare reports to onError and returns null
                        /\ tasks' = IF rtc.callbacks
                                       /\ isSecureContextError(support.error)
                                    THEN Spawn(tasks, timer)
                                    ELSE tasks
                        /\ last' = Note("unsupported", 0,
                                        IF rtc.callbacks THEN 1 ELSE 0, 0, {}, FALSE)
                /\ UNCHANGED <<store, rtc, tracks>>
           ELSE /\ rtc' = ss.rtc
                /\ IF ss.suspend = "none"
                   THEN /\ store' = ToggleDone(store, ss.rtc)
                        /\ tasks' = tasks
                        /\ last' = Note("share-stopped", 0, 0, 0, out, FALSE)
                   ELSE /\ store' = store
                        /\ tasks' = Spawn(tasks, StopShareTask(ss.suspend,
                                              store.activeCall, rtc.originalVideoTrack))
                        /\ last' = NoLast
                /\ Tracks(ss.tracks)

\* the screen-share button, rendered for video calls only
handleToggleScreenShare == ToggleScreenShare({"video"})

\* what handleToggleScreenShare does when startScreenShare returned the stream
ShareStarted(t) ==
    /\ store' = setScreenSharing(store, TRUE)
    /\ last' = Note("share-started", 0, 1, 0,
                    {Msg("screen-share-started", "room", t.call.id)}, FALSE)

\* getDisplayMedia resolves
DisplayResolve(t) ==
    LET sid == Lowest(FreeIds(tracks))
        trk1 == NewStream(tracks, <<"screen">>)
        r1 == [rtc EXCEPT !.screenStream = sid,
                          !.originalVideoTrack =
                              IF rtc.localStream # 0
                              THEN VideoTrackOf(tracks, rtc.localStream) ELSE @]
        replace == rtc.peerConnection # 0 /\ rtc.localStream # 0 /\ pc.videoSender # 0
    IN  /\ Ready
        /\ UNCHANGED <<socketService, platform>>
        /\ t.kind = "startScreenShare" /\ t.at = "display"
        /\ FreeIds(tracks) # {}
        /\ UNCHANGED <<vcs, pc, nextCall, nCand, hung>>
        /\ IF replace
           THEN /\ rtc' = r1
                /\ tasks' = Spawn(Done(tasks, t),
                                  [t EXCEPT !.at = "replaceTrack", !.arg = sid])
                /\ store' = store
                /\ last' = NoLast
           ELSE /\ rtc' = [r1 EXCEPT !.isScreenSharing = TRUE]
                /\ tasks' = Done(tasks, t)
                /\ ShareStarted(t)
        /\ Tracks(trk1)

\* getDisplayMedia rejects: onError, startScreenShare returns null
DisplayReject(t) ==
    /\ Ready
    /\ UNCHANGED <<socketService, platform>>
    /\ t.kind = "startScreenShare" /\ t.at = "display"
    /\ tasks' = Done(tasks, t)
    /\ last' = Note("share-error", 0, IF rtc.callbacks THEN 1 ELSE 0, 0, {}, FALSE)
    /\ UNCHANGED <<store, rtc, vcs, pc, tracks, nextCall, nCand, hung>>

\* sender.replaceTrack(videoTrack) of startScreenShare settles
ReplaceSettle(t, ok) ==
    /\ Ready
    /\ UNCHANGED <<socketService, platform>>
    /\ t.kind = "startScreenShare" /\ t.at = "replaceTrack"
    /\ ~pc.closed
    /\ tasks' = Done(tasks, t)
    /\ UNCHANGED <<vcs, nextCall, nCand, hung>>
    /\ IF ok
       THEN /\ pc' = [pc EXCEPT !.videoSender = t.arg]
            /\ rtc' = [rtc EXCEPT !.isScreenSharing = TRUE]
            /\ ShareStarted(t)
       ELSE /\ last' = Note("share-error", 0, IF rtc.callbacks THEN 1 ELSE 0, 0, {},
                            FALSE)
            /\ UNCHANGED <<store, rtc, pc>>
    /\ Tracks(tracks)

\* the end of stopScreenShare and, when handleToggleScreenShare awaits it, the
\* rest of that handler; r is the service after the step so far
StopShareDone(t, r, reset) ==
    /\ rtc' = IF reset
              THEN [r EXCEPT !.isScreenSharing = FALSE, !.originalVideoTrack = 0]
              ELSE r
    /\ IF t.call # NoCall
       THEN /\ store' = ToggleDone(store, r)
            /\ last' = Note("share-stopped", 0, 0, 0,
                            {Msg("screen-share-stopped", "room", t.call.id)}, FALSE)
       ELSE /\ store' = store
            /\ last' = NoLast

\* a variant of StopRestoreSettle that finishes without putting the camera track
\* back on the sender
StopRestoreSettle_NoRestore(t, ok) ==
    /\ Ready
    /\ UNCHANGED <<socketService, platform>>
    /\ t.kind = "stopScreenShare" /\ t.at = "restore"
    /\ ~pc.closed
    /\ tasks' = Done(tasks, t)
    /\ pc' = pc
    /\ StopShareDone(t, rtc, ok)
    /\ UNCHANGED <<vcs, nextCall, nCand, hung>>
    /\ Tracks(tracks)

\* sender.replaceTrack(originalVideoTrack) of stopScreenShare settles; a
\* rejection skips the reset of isScreenSharing
StopRestoreSettle(t, ok) ==
    /\ Ready
    /\ UNCHANGED <<socketService, platform>>
    /\ t.kind = "stopScreenShare" /\ t.at = "restore"
    /\ ~pc.closed
    /\ tasks' = Done(tasks, t)
    /\ pc' = IF ok THEN [pc EXCEPT !.videoSender = t.arg] ELSE pc
    /\ StopShareDone(t, rtc, ok)
    /\ UNCHANGED <<vcs, nextCall, nCand, hung>>
    /\ Tracks(tracks)

\* getUserMedia({video: true}) of stopScreenShare resolves
StopCameraResolve(t) ==
    LET nid == Lowest(FreeIds(tracks))
        trk1 == NewStream(tracks, <<"video">>)
        old == VideoTrackOf(tracks, rtc.localStream)
        swap == rtc.peerConnection # 0 /\ rtc.localStream # 0
        \* no sender carries video: the new track goes into the local stream
        \* at once
        trk2 == IF swap
                THEN [i \in TrackIds |->
                         IF i = nid THEN [trk1[i] EXCEPT !.stream = rtc.localStream]
                         ELSE IF i = old THEN [trk1[i] EXCEPT !.stream = 0]
                         ELSE trk1[i]]
                ELSE trk1
        s1 == IF swap /\ rtc.callbacks THEN setLocalStream(store, rtc.localStream)
              ELSE store
    IN  /\ Ready
        /\ UNCHANGED <<socketService, platform>>
        /\ t.kind = "stopScreenShare" /\ t.at = "camera"
        /\ FreeIds(tracks) # {}
        /\ UNCHANGED <<vcs, pc, nextCall, nCand, hung>>
        /\ IF rtc.peerConnection # 0 /\ pc.videoSender # 0
           THEN /\ tasks' = Spawn(Done(tasks, t),
                                  [t EXCEPT !.at = "replaceCamera", !.arg = nid])
                /\ last' = NoLast
                /\ UNCHANGED <<store, rtc>>
                /\ Tracks(trk1)
           ELSE \* this.peerConnection is null: getSenders throws, the inner catch
                \* swallows it
                /\ tasks' = Done(tasks, t)
                /\ rtc' = [rtc EXCEPT !.isScreenSharing = FALSE,
                                      !.originalVideoTrack = 0]
                /\ IF t.call # NoCall
                   THEN /\ store' = ToggleDone(s1, rtc)
                        /\ last' = Note("share-stopped", 0, 0, 0,
                                        {Msg("screen-share-stopped", "room", t.call.id)},
                                        FALSE)
                   ELSE /\ store' = s1
                        /\ last' = NoLast
                /\ Tracks(trk2)

StopCameraReject(t) ==
    /\ Ready
    /\ UNCHANGED <<socketService, platform>>
    /\ t.kind = "stopScreenShare" /\ t.at = "camera"
    /\ tasks' = Done(tasks, t)
    /\ StopShareDone(t, rtc, TRUE)
    /\ UNCHANGED <<vcs, pc, nextCall, nCand, hung>>
    /\ Tracks(tracks)

\* sender.replaceTrack(newVideoTrack) settles; the new track takes the place of
\* the local stream's video track, which is removed without being stopped
StopCameraReplaced(t, ok) ==
    LET old == VideoTrackOf(tracks, rtc.localStream)
        swap == ok /\ rtc.localStream # 0
        trk1 == IF swap
                THEN [i \in TrackIds |->
                         IF i = t.arg THEN [tracks[i] EXCEPT !.stream = rtc.localStream]
                         ELSE IF i = old THEN [tracks[i] EXCEPT !.stream = 0]
                         ELSE tracks[i]]
                ELSE tracks
        s1 == IF swap /\ rtc.callbacks THEN setLocalStream(store, rtc.localStream)
              ELSE store
    IN  /\ Ready
        /\ UNCHANGED <<socketService, platform>>
        /\ t.kind = "stopScreenShare" /\ t.at = "replaceCamera"
        /\ ~pc.closed
        /\ tasks' = Done(tasks, t)
        /\ pc' = IF ok THEN [pc EXCEPT !.videoSender = t.arg] ELSE pc
        /\ rtc' = [rtc EXCEPT !.isScreenSharing = FALSE, !.originalVideoTrack = 0]
        /\ IF t.call # NoCall
           THEN /\ store' = ToggleDone(s1, rtc)
                /\ last' = Note("share-stopped", 0, 0, 0,
                                {Msg("screen-share-stopped", "room", t.call.id)}, FALSE)
           ELSE /\ store' = s1
                /\ last' = NoLast
        /\ UNCHANGED <<vcs, nextCall, nCand, hung>>
        /\ Tracks(trk1)

\* the user stops sharing in the browser's own UI: the track ends and its
\* onended handler starts a stopScreenShare nobody awaits
ScreenEnded(i) ==
    LET trk1 == [tracks EXCEPT ![i].live = FALSE]
        ss == stopScreenShareSync(rtc, pc, trk1)
    IN  /\ Ready
        /\ UNCHANGED <<socketService, platform>>
        /\ tracks[i].kind = "screen" /\ tracks[i].live
        /\ Room(tasks, 1)
        /\ rtc' = ss.rtc
        /\ tasks' = IF ss.suspend = "none" THEN tasks
                    ELSE Spawn(tasks, StopShareTask(ss.suspend, NoCall,
                                                    rtc.originalVideoTrack))
        /\ last' = NoLast
        /\ UNCHANGED <<store, vcs, pc, nextCall, nCand, hung>>
        /\ Tracks(ss.tracks)

---------------------------------------------------------------------------

Next ==
    \/ Render
    \/ \E from \in Peers, type \in CallTypes : handleIncomingCallSignal(from, type)
    \/ \E callee \in Peers, type \in CallTypes : ClickCall(callee, type)
    \/ \E t \in DOMAIN tasks, ok \in BOOLEAN : handleInitiateCall(t, ok)
    \/ ClickAccept
    \/ \E t \in DOMAIN tasks, ok \in BOOLEAN : handleAccept(t, ok)
    \/ ClickReject
    \/ \E t \in DOMAIN tasks, ok \in BOOLEAN : handleReject(t, ok)
    \/ \E t \in DOMAIN tasks : MediaResolve(t)
    \/ \E t \in DOMAIN tasks, kind \in ErrorKinds : MediaReject(t, kind)
    \/ \E t \in DOMAIN tasks : NegotiateOk(t)
    \/ \E t \in DOMAIN tasks : NegotiateFail(t)
    \/ ClickEndCall
    \/ \E t \in DOMAIN tasks : TimerFire(t)
    \/ \E t \in DOMAIN tasks, ok \in BOOLEAN : handleEndCall(t, ok)
    \/ \E callId \in KnownCalls : handleCallEnded(callId)
    \/ handleCallRejected
    \/ handleUserBusy
    \/ handleUserUnavailable
    \/ handleCallAccepted
    \/ \E t \in DOMAIN tasks, ok \in BOOLEAN : handleAnswer(t, ok)
    \/ \E ok \in BOOLEAN : handleIceCandidate(ok)
    \/ ontrack
    \/ \E state \in ConnStates : onconnectionstatechange(state)

Spec == Init /\ [][Next]_vars

\* an outgoing call with the screen-share controls in use; the peer and the
\* server stay quiet
NextShare ==
    \/ Render
    \/ \E callee \in Peers, type \in CallTypes : ClickCall(callee, type)
    \/ \E t \in DOMAIN tasks : handleInitiateCall(t, TRUE)
    \/ \E t \in DOMAIN tasks : MediaResolve(t)
    \/ \E t \in DOMAIN tasks : NegotiateOk(t)
    \/ ClickEndCall
    \/ \E t \in DOMAIN tasks, ok \in BOOLEAN : handleEndCall(t, ok)
    \/ handleToggleScreenShare
    \/ \E t \in DOMAIN tasks : DisplayResolve(t)
    \/ \E t \in DOMAIN tasks : DisplayReject(t)
    \/ \E t \in DOMAIN tasks, ok \in BOOLEAN : ReplaceSettle(t, ok)
    \/ \E t \in DOMAIN tasks, ok \in BOOLEAN : StopRestoreSettle(t, ok)
    \/ \E t \in DOMAIN tasks : StopCameraResolve(t)
    \/ \E t \in DOMAIN tasks : StopCameraReject(t)
    \/ \E t \in DOMAIN tasks, ok \in BOOLEAN : StopCameraReplaced(t, ok)
    \/ \E i \in TrackIds : ScreenEnded(i)

SpecShare == Init /\ [][NextShare]_vars

\* a third user, who only ever calls in
Others == {"C"}

\* calls with A, placed or accepted, while a third user calls in at any time; the
\* REST calls and the devices do not fail and the peer does not hang up
NextBusy ==
    \/ Render
    \/ \E from \in Others, type \in CallTypes : handleIncomingCallSignal(from, type)
    \/ \E callee \in Peers, type \in CallTypes : ClickCall(callee, type)
    \/ \E t \in DOMAIN tasks : handleInitiateCall(t, TRUE)
    \/ ClickAccept
    \/ \E t \in DOMAIN tasks : handleAccept(t, TRUE)
    \/ ClickReject
    \/ \E t \in DOMAIN tasks : handleReject(t, TRUE)
    \/ \E t \in DOMAIN tasks : MediaResolve(t)
    \/ \E t \in DOMAIN tasks : NegotiateOk(t)
    \/ ClickEndCall
    \/ \E t \in DOMAIN tasks, ok \in BOOLEAN : handleEndCall(t, ok)
    \/ handleCallAccepted
    \/ \E t \in DOMAIN tasks : handleAnswer(t, TRUE)
    \/ ontrack
    \/ \E state \in ConnStates : onconnectionstatechange(state)

SpecBusy == Init /\ [][NextBusy]_vars

\* calls placed and accepted, connected, interrupted and ended, with the duration
\* timer running; the devices and the negotiation do not fail
NextDuration ==
    \/ Render
    \/ \E from \in Peers, type \in CallTypes : handleIncomingCallSignal(from, type)
    \/ \E callee \in Peers, type \in CallTypes : ClickCall(callee, type)
    \/ \E t \in DOMAIN tasks : handleInitiateCall(t, TRUE)
    \/ ClickAccept
    \/ \E t \in DOMAIN tasks, ok \in BOOLEAN : handleAccept(t, ok)
    \/ \E t \in DOMAIN tasks : MediaResolve(t)
    \/ \E t \in DOMAIN tasks : NegotiateOk(t)
    \/ ClickEndCall
    \/ \E t \in DOMAIN tasks, ok \in BOOLEAN : handleEndCall(t, ok)
    \/ \E callId \in KnownCalls : handleCallEnded(callId)
    \/ handleCallAccepted
    \/ \E t \in DOMAIN tasks : handleAnswer(t, TRUE)
    \/ \E state \in ConnStates : onconnectionstatechange(state)
    \/ DurationTick

SpecDuration == Init /\ [][NextDuration]_vars

\* an outgoing call from dialling to connected and hung up, with the mute and
\* video buttons in use; nothing fails and the peer only accepts
NextControls ==
    \/ Render
    \/ \E callee \in Peers, type \in CallTypes : ClickCall(callee, type)
    \/ \E t \in DOMAIN tasks : handleInitiateCall(t, TRUE)
    \/ \E t \in DOMAIN tasks : MediaResolve(t)
    \/ \E t \in DOMAIN tasks : NegotiateOk(t)
    \/ handleCallAccepted
    \/ \E t \in DOMAIN tasks : handleAnswer(t, TRUE)
    \/ \E state \in ConnStates : onconnectionstatechange(state)
    \/ ClickEndCall
    \/ \E t \in DOMAIN tasks, ok \in BOOLEAN : handleEndCall(t, ok)
    \/ handleToggleMute
    \/ handleToggleVideo

SpecControls == Init /\ [][NextControls]_vars

\* an outgoing call that the peer accepts and that connects, with the screen
\* shared and unshared (by the button or in the browser's own UI) at any time;
\* no device request and no replaceTrack fails
NextRestore ==
    \/ Render
    \/ \E callee \in Peers, type \in CallTypes : ClickCall(callee, type)
    \/ \E t \in DOMAIN tasks : handleInitiateCall(t, TRUE)
    \/ \E t \in DOMAIN tasks : MediaResolve(t)
    \/ \E t \in DOMAIN tasks : NegotiateOk(t)
    \/ handleCallAccepted
    \/ \E t \in DOMAIN tasks : handleAnswer(t, TRUE)
    \/ onconnectionstatechange("connected")
    \/ ClickEndCall
    \/ \E t \in DOMAIN tasks, ok \in BOOLEAN : handleEndCall(t, ok)
    \/ handleToggleScreenShare
    \/ \E t \in DOMAIN tasks : DisplayResolve(t)
    \/ \E t \in DOMAIN tasks : ReplaceSettle(t, TRUE)
    \/ \E t \in DOMAIN tasks : StopRestoreSettle(t, TRUE)
    \/ \E t \in DOMAIN tasks : StopCameraResolve(t)
    \/ \E t \in DOMAIN tasks : StopCameraReplaced(t, TRUE)
    \/ \E i \in TrackIds : ScreenEnded(i)

SpecRestore == Init /\ [][NextRestore]_vars

SpecSocket == Init /\ [][NextSocket]_vars

\* outgoing calls and the share button on any platform
NextPlatform ==
    \/ Render
    \/ \E callee \in Peers, type \in CallTypes : ClickCall(callee, type)
    \/ \E t \in DOMAIN tasks : handleInitiateCall(t, TRUE)
    \/ \E t \in DOMAIN tasks : MediaResolve(t)
    \/ \E t \in DOMAIN tasks : NegotiateOk(t)
    \/ \E t \in DOMAIN tasks : TimerFire(t)
    \/ \E t \in DOMAIN tasks, ok \in BOOLEAN : handleEndCall(t, ok)
    \/ handleToggleScreenShare
    \/ \E t \in DOMAIN tasks : DisplayResolve(t)
    \/ \E t \in DOMAIN tasks : ReplaceSettle(t, TRUE)

\* an outgoing call that, once the answer is applied, receives up to
\* MaxCand + 1 candidates, good and bad
NextCandidates ==
    \/ Render
    \/ \E callee \in Peers, type \in CallTypes : ClickCall(callee, type)
    \/ \E t \in DOMAIN tasks : handleInitiateCall(t, TRUE)
    \/ \E t \in DOMAIN tasks : MediaResolve(t)
    \/ \E t \in DOMAIN tasks : NegotiateOk(t)
    \/ handleCallAccepted
    \/ \E t \in DOMAIN tasks : handleAnswer(t, TRUE)
    \/ \E ok \in BOOLEAN :
          vcs.mounted /\ Negotiated(pc) /\ IceCandidateEvent(ok, MaxCand + 1)
    \/ \E state \in ConnStates : onconnectionstatechange(state)
    \/ ClickEndCall
    \/ \E t \in DOMAIN tasks, ok \in BOOLEAN : handleEndCall(t, ok)

SpecCandidates == Init /\ [][NextCandidates]_vars

SpecPlatform == (\E env \in Environments : InitIn(env)) /\ [][NextPlatform]_vars

---------------------------------------------------------------------------
(* Properties.  last is the note of the step just taken, so a formula over   *)
(* last' speaks about that step.                                             *)

\* C1: an incoming-call-signal that arrives while the client is not idle (a call
\* is started or an incoming call is pending) is answered with user-busy for its
\* callId and leaves the call store as it was.
C1_BusyWhenNotIdle ==
    [][(last'.ev = "incoming-call-signal" /\ NonIdle(store))
          => /\ \E m \in last'.emitted : m.ev = "user-busy" /\ m.callId = last'.callId
             /\ store' = store]_vars

\* C2: the store never holds a pending incoming call while a started call exists.
C2_OneSession == ~(store.isCallActive /\ store.incomingCall # NoCall)

\* C3: a candidate received while an incoming call is ringing, before the
\* connection has a remote description, is kept in the pending queue (so that it
\* can be applied later): none is dropped.
C3_CandidateKept ==
    [][(nCand' = nCand + 1 /\ store.incomingCall # NoCall /\ ~pc.remote)
          => \E k \in DOMAIN rtc'.pendingIceCandidates :
                 rtc'.pendingIceCandidates[k] = nCand']_vars

\* C4: the step that sets the remote description leaves the pending queue empty,
\* its candidates applied.
C4_QueueDrained ==
    [][(~pc.remote /\ pc'.remote) => rtc'.pendingIceCandidates = <<>>]_vars

\* C5: the step that makes an accepted incoming call the active call leaves that
\* call's offer in callSignal.
C5_OfferKept ==
    [][(store'.activeCall # store.activeCall /\ store'.activeCall.caller \in Peers)
          => store'.callSignal = store'.activeCall.id]_vars

\* C6: when initiateCall / acceptCall resumes for a call that is no longer the
\* store's call, after WebRTCService.endCall has run, the step changes neither
\* the store, nor the service, nor the connection, and sends nothing.
C6_StaleDiscarded ==
    [][(last'.ev \in {"media-resolved", "negotiated"} /\ last'.stale /\ rtc.callId = 0)
          => /\ store' = store
             /\ rtc' = rtc
             /\ pc' = pc
             /\ last'.emitted = {}]_vars

\* C7: when the call store is idle, rendered, and no handler is in flight, the
\* service has no open connection and no track is live.
C7_Released ==
    (~NonIdle(store) /\ ~Dirty /\ tasks = EmptyBag)
        => (rtc.peerConnection = 0 /\ pc.closed /\ LiveTracks(tracks) = {})

\* C8: when a stopScreenShare finishes after WebRTCService.endCall (no connection,
\* no live track before the step), no track is live afterwards.
C8_EndCallReleases ==
    [][(/\ \E t \in DOMAIN tasks : t.kind = "stopScreenShare" /\ tasks' = Done(tasks, t)
        /\ rtc.peerConnection = 0
        /\ LiveTracks(tracks) = {})
          => LiveTracks(tracks') = {}]_vars

\* C9: the handling of a terminating event of a started call shows exactly one
\* toast and takes the store from active to ended exactly once.
C9_OneToastOneTransition ==
    [][(/\ last'.ev \in {"call-ended", "call-rejected", "user-busy",
                         "user-unavailable", "device-denied", "device-insecure"}
        /\ store.isCallActive)
          => (last'.toasts = 1 /\ last'.ended = 1)]_vars

\* C10: when getUserMedia is denied during a call attempt, the step that handles
\* the failure ends the call: isCallActive becomes false.
C10_DenialEnds ==
    [][(last'.ev = "device-denied" /\ store.isCallActive)
          => ~store'.isCallActive]_vars

\* C11: the step in which getUserMedia fails ends that initiateCall: it sends
\* nothing, leaves the connection and the service as they were, and the task does
\* not go on (so no call-user follows from it); and the step that starts an
\* attempt stops every track of the local stream the service held before.
C11_FailedMediaSendsNothing ==
    [][/\ last'.ev \in {"device-denied", "device-insecure"}
            => /\ last'.emitted = {}
               /\ pc' = pc
               /\ rtc' = rtc
               /\ \A t \in DOMAIN tasks' :
                      t.kind = "initializeCall"
                          => t \in DOMAIN tasks /\ tasks'[t] <= tasks[t]
       /\ (\E t \in DOMAIN tasks' :
               /\ t.kind = "initializeCall" /\ t.at = "media"
               /\ (t \in DOMAIN tasks => tasks'[t] > tasks[t]))
            => \A i \in TrackIds :
                   (rtc.localStream # 0 /\ tracks[i].stream = rtc.localStream)
                       => ~tracks'[i].live]_vars

\* C11 witness: getUserMedia was just denied in an attempt that started while a
\* local stream was held; the tracks of that stream are stopped.
C11_Witness ==
    /\ last.ev = "device-denied"
    /\ store.isCallActive
    /\ store.localStream # 0
    /\ \A i \in TrackIds : tracks[i].stream = store.localStream => ~tracks[i].live

\* C12: the step in which the connection of a call that is connecting or active
\* reports "failed" terminates the call: afterwards the store has no active call,
\* the connection is closed and no track is live.
C12_FailureTerminates ==
    [][(/\ store.isCallActive
        /\ Negotiated(pc)
        /\ store.connectionState # "failed"
        /\ store'.connectionState = "failed")
            => /\ ~store'.isCallActive
               /\ pc'.closed
               /\ LiveTracks(tracks') = {}]_vars

\* C13: the step in which the connection reports "disconnected" changes nothing
\* but the recorded connection state: the store is still active for the same call,
\* the connection and the service are as they were, every track that was live is
\* still live and nothing is sent, so the step is never noted as one that ends
\* a call or shows a toast; and a step back to "connected" out of "disconnected"
\* likewise keeps the same call, connection and tracks.
C13_DisconnectedIsTransient ==
    [][(\/ /\ store.connectionState # "disconnected"
           /\ store'.connectionState = "disconnected"
        \/ /\ store.connectionState = "disconnected"
           /\ store'.connectionState = "connected"
        \/ last'.ev = "connection-disconnected")
            => /\ store' = [store EXCEPT !.connectionState = store'.connectionState]
               /\ store'.isCallActive
               /\ ~pc'.closed
               /\ pc' = pc
               /\ rtc' = rtc
               /\ tracks' = tracks
               /\ tasks' = tasks
               /\ last'.emitted = {} /\ last'.ended = 0]_vars

\* C13 witness: the connection of an active call has reported "disconnected": the
\* store records it for the call the service negotiated, the connection is open
\* and a local track is live.
C13_Witness ==
    /\ store.connectionState = "disconnected"
    /\ store.isCallActive
    /\ store.activeCall.id = rtc.callId
    /\ ~pc.closed
    /\ \E i \in TrackIds : tracks[i].live /\ tracks[i].stream = rtc.localStream

\* C14: a receiver that accepted while callSignal is null keeps waiting: the
\* component marks the call initialised only once acceptCall has run for it, so
\* that the effect can still start acceptCall when the offer is there.  Stated as:
\* whenever the mounted component of a received call is initialised, the service
\* has been set up as the answering side of that call.
C14_AcceptWaitsForOffer ==
    (/\ store.isCallActive
     /\ store.activeCall.caller # Me
     /\ vcs.mounted
     /\ vcs.isInitialized)
        => /\ rtc.callId = store.activeCall.id
           /\ ~rtc.isInitiator

\* C15: a call-ended event whose callId is neither the active call's nor the
\* pending incoming call's is ignored: the step that handles it leaves the store
\* (the pending incoming call included), the connection and the service as they
\* were and sends nothing.
C15_StaleEventsIgnored ==
    [][(/\ last'.ev = "call-ended"
        /\ store.isCallActive \/ store.incomingCall # NoCall
        /\ last'.callId # store.activeCall.id
        /\ last'.callId # store.incomingCall.id)
            => /\ store' = store
               /\ pc' = pc
               /\ rtc' = rtc
               /\ last'.emitted = {}]_vars

\* C16: while a call is active (isCallActive), an incoming-call-signal from the
\* third user C is answered with exactly one user-busy {to: C, callId: its
\* callId}; the signal sets no incoming call and the store (activeCall, callType,
\* connectionState, streams), the service, the connection and the tracks stay as
\* they were, and no toast is shown.
C16_BusyWhileActive ==
    [][(last'.ev = "incoming-call-signal" /\ store.isCallActive)
          => /\ last'.emitted = {Msg("user-busy", "C", last'.callId)}
             /\ last'.callId # store.activeCall.id
             /\ store'.incomingCall = store.incomingCall
             /\ store' = store
             /\ rtc' = rtc
             /\ pc' = pc
             /\ tracks' = tracks
             /\ last'.toasts = 0]_vars

\* C16 witness: C's signal has just been answered with user-busy while the call
\* placed to A is connected.
C16_Witness ==
    /\ last.ev = "incoming-call-signal"
    /\ \E m \in last.emitted : m.ev = "user-busy" /\ m.to = "C"
    /\ store.isCallActive
    /\ store.activeCall.callee = "A"
    /\ store.connectionState = "connected"
    /\ store.incomingCall = NoCall

\* C17: an outgoing call goes through media acquisition, createPeerConnection,
\* createOffer and setLocalDescription in this order and sends its call-user only
\* then, once: a call-user is sent alone, by the step that completes
\* setLocalDescription, on an open connection that now has the offer as its local
\* description, and with it the negotiation of that call is over (no acquisition,
\* connection or offer of the same call is still to come); it names the other
\* user, the call and its type, and carries an offer that asks for audio, and for
\* video iff the type is video.  The call reaches setLocalDescription only from
\* createOffer, and createOffer only from media acquisition, in the step that
\* stores the acquired stream and creates the connection.
C17_OfferThenCallUser ==
    [][LET At(ts, call, at) ==
               {t \in DOMAIN ts : t.kind = "initializeCall" /\ t.call = call /\ t.at = at}
           N(ts, call, at) == BagCardinality([t \in At(ts, call, at) |-> ts[t]])
           Gone(call, at) == N(tasks', call, at) < N(tasks, call, at)
           Came(call, at) == N(tasks', call, at) > N(tasks, call, at)
           Outgoing == {t.call : t \in {u \in DOMAIN tasks \cup DOMAIN tasks' :
                                            u.kind = "initializeCall" /\ u.call.caller = Me}}
       IN  /\ \A m \in last'.emitted :
                 m.ev = "call-user"
                     => /\ last'.emitted = {m}
                        /\ \E call \in Outgoing :
                               /\ Gone(call, "setLocalDescription")
                               /\ m.to = OtherUser(call)
                               /\ m.callId = call.id
                               /\ m.callType = call.type
                        /\ m.signalData.type = "offer"
                        /\ m.signalData.offerToReceiveAudio
                        /\ m.signalData.offerToReceiveVideo <=> (m.callType = "video")
                        /\ ~pc'.closed /\ pc'.local = "offer"
                        /\ rtc'.peerConnection # 0
                        /\ \A u \in DOMAIN tasks' :
                               u.kind = "initializeCall" => u.call.id # m.callId
           /\ \A call \in Outgoing :
                 Came(call, "setLocalDescription")
                     => /\ Gone(call, "createOffer")
                        /\ ~pc.closed /\ pc' = pc
           /\ \A call \in Outgoing :
                 Came(call, "createOffer")
                     => /\ Gone(call, "media")
                        /\ rtc'.localStream # 0
                        /\ \E i \in TrackIds :
                               tracks'[i].stream = rtc'.localStream /\ tracks'[i].live
                        /\ ~pc'.closed /\ pc'.local = "none"]_vars

C19_DurationKeptAtEnd ==
    [][(store.isCallActive /\ ~store'.isCallActive)
            => store'.callDuration = store.callDuration]_vars

\* C20: the mute, video and screen-share controls act only on a call that is
\* connecting or active.  While an outgoing call is still ringing (the store has
\* the call, call-accepted has not been received, the connection has no remote
\* description and has reported no state), no step changes isMuted,
\* isVideoEnabled or isScreenSharing, or the enabled flag of any track.
C20_ControlsOnlyInCall ==
    [][(/\ store.isCallActive
        /\ store'.activeCall = store.activeCall
        /\ store.activeCall.caller = Me
        /\ store.connectionState = "none"
        /\ ~pc.remote
        /\ \A t \in DOMAIN tasks : t.kind # "handleAnswer")
            => /\ store'.isMuted = store.isMuted
               /\ store'.isVideoEnabled = store.isVideoEnabled
               /\ store'.isScreenSharing = store.isScreenSharing
               /\ \A i \in TrackIds :
                      (tracks'[i].kind = tracks[i].kind /\ tracks'[i].stream = tracks[i].stream)
                          => tracks'[i].enabled = tracks[i].enabled]_vars

\* C21: in the connected video call the service negotiated, (a) the step in
\* which stopScreenShare lets go of the capture stream stops every track of that
\* stream, and (b) the step in which stopScreenShare completes (the service's
\* isScreenSharing goes back to false) leaves the video sender with a camera
\* track: the original camera track if the service held a reference to it when
\* the stop began (the task's arg), otherwise a track acquired by that
\* stopScreenShare, which is then the video track of the local stream. Part (b)
\* is about a stop that is the only operation in flight and completes while no
\* new capture has been started; neither step changes the connection's local or
\* remote description or sends an offer or an answer.
C21_ShareRestoresCamera ==
    [][/\ (rtc.screenStream # 0 /\ rtc'.screenStream = 0)
            => /\ \A i \in TrackIds :
                      tracks[i].stream = rtc.screenStream => ~tracks'[i].live
               /\ (~pc'.closed =>
                      pc'.local = pc.local /\ pc'.remote = pc.remote)
               /\ \A m \in last'.emitted : m.ev \notin {"call-user", "answer-call"}
       /\ (/\ rtc.isScreenSharing /\ ~rtc'.isScreenSharing
           /\ rtc.screenStream = 0
           /\ store.isCallActive /\ store'.isCallActive
           /\ store.callType = "video" /\ rtc.callType = "video"
           /\ rtc.callId = store.activeCall.id
           /\ BagCardinality(tasks) = 1
           /\ \A t \in DOMAIN tasks : t.kind = "stopScreenShare"
           /\ store.connectionState = "connected"
           /\ Negotiated(pc) /\ ~pc'.closed)
            => /\ pc'.videoSender # 0
               /\ tracks'[pc'.videoSender].kind = "video"
               /\ \A t \in DOMAIN tasks :
                      IF t.at = "restore"
                      THEN pc'.videoSender = t.arg
                      ELSE /\ tracks[pc'.videoSender].stream # rtc.localStream
                           /\ pc'.videoSender = VideoTrackOf(tracks', rtc'.localStream)
               /\ pc'.local = pc.local /\ pc'.remote = pc.remote
               /\ \A m \in last'.emitted : m.ev \notin {"call-user", "answer-call"}]_vars

\* C21 witness: in a connected video call the share was just stopped with the
\* button and the sender is back on the live camera track of the local stream.
C21_Witness ==
    /\ last.ev = "share-stopped"
    /\ store.isCallActive
    /\ store.callType = "video"
    /\ store.connectionState = "connected"
    /\ ~rtc.isScreenSharing
    /\ pc.videoSender # 0
    /\ pc.videoSender = VideoTrackOf(tracks, rtc.localStream)
    /\ tracks[pc.videoSender].live

\* C22: the step in which an SDP operation of the store's current call fails
\* (createOffer / setLocalDescription / setRemoteDescription / createAnswer in
\* initiateCall or acceptCall, or setRemoteDescription of the answer in
\* handleAnswer) terminates the attempt: afterwards the store has no active
\* call, the connection is closed and no track is live, or at least an end of
\* the call has been scheduled.
C22_SdpFailureTerminates ==
    [][(/\ \/ last'.ev = "negotiation-error"
           \/ last'.ev = "answer-set" /\ last'.toasts > 0
        /\ ~last'.stale
        /\ store.isCallActive
        /\ last'.callId = store.activeCall.id)
            => \/ /\ ~store'.isCallActive
                  /\ pc'.closed
                  /\ LiveTracks(tracks') = {}
               \/ \E t \in DOMAIN tasks' : t.kind \in {"timer", "handleEndCall"}]_vars

\* C23: a step of the socket service taken while every registered handler is
\* attached to the service's current socket (a connect call, a transport drop, a
\* reconnection, a subscription, a cleanup) leaves every registered handler
\* attached to the service's current socket.
C23_HandlersFollowSocket ==
    [][(/\ socketService.socket # 0
        /\ socketService.registered \subseteq Attached(socketService))
            => socketService'.registered \subseteq Attached(socketService')]_vars

C25_OneOpenConnection ==
    /\ pc.leaked = 0
    /\ (IF pc.closed THEN 0 ELSE 1) + pc.leaked <= 1
    /\ rtc.peerConnection = 0 => pc.closed

\* C25 witness: two calls were started at once; the first call's media is still
\* live although the service has moved on to the second call's stream, and the
\* second call's initiateCall is past createPeerConnection: the connection the
\* service holds replaced the one created for the first call.
C25_Witness ==
    /\ ~pc.closed /\ rtc.peerConnection # 0
    /\ rtc.callId = 2 /\ store.activeCall.id = 2
    /\ \E t \in DOMAIN tasks :
          t.kind = "initializeCall" /\ t.call.id = 2 /\ t.at = "createOffer"
    /\ \E i \in TrackIds :
          tracks[i].live /\ tracks[i].stream \notin {0, rtc.localStream}

\* C26: the step in which an ice-candidate event is handled, whether the
\* connection takes the candidate or refuses it, shows no error, ends nothing
\* and leaves the call store, the running tasks and the connection's open /
\* closed state and descriptions as they were; the candidates applied before
\* stay applied, and a connection that was ready for candidates (held by the
\* service, open, remote description set) is still ready afterwards, so a later
\* candidate is applied to it.
C26_BadCandidateHarmless ==
    [][nCand' # nCand
        => /\ store' = store /\ tasks' = tasks /\ hung' = hung
           /\ last'.toasts = 0 /\ last'.ended = 0 /\ last'.emitted = {}
           /\ rtc'.peerConnection = rtc.peerConnection
           /\ pc'.closed = pc.closed
           /\ pc'.remote = pc.remote /\ pc'.local = pc.local
           /\ \/ pc'.applied = pc.applied
              \/ pc'.applied = Append(pc.applied, nCand')
           /\ (vcs.mounted /\ rtc.peerConnection # 0 /\ ~pc.closed /\ pc.remote)
                 => /\ rtc'.pendingIceCandidates = rtc.pendingIceCandidates
                    /\ rtc'.peerConnection # 0 /\ ~pc'.closed /\ pc'.remote]_vars

\* C26 witness: in the first call both candidates arrived after the answer was
\* applied; the connection refused the first (it is neither applied nor
\* queued), it is still open and the second candidate has been applied to it.
C26_Witness ==
    /\ nextCall = 2 /\ store.isCallActive
    /\ rtc.peerConnection # 0 /\ ~pc.closed /\ pc.remote
    /\ nCand = 2
    /\ pc.applied = <<2>>
    /\ rtc.pendingIceCandidates = <<>>

\* an outgoing audio call in which the service's screen share is started and
\* stopped (the call screen shows the button in video calls only); the peer
\* accepts or stays quiet
NextAudioShare ==
    \/ Render
    \/ \E callee \in Peers : ClickCall(callee, "audio")
    \/ \E t \in DOMAIN tasks : handleInitiateCall(t, TRUE)
    \/ \E t \in DOMAIN tasks : MediaResolve(t)
    \/ \E t \in DOMAIN tasks : NegotiateOk(t)
    \/ handleCallAccepted
    \/ \E t \in DOMAIN tasks : handleAnswer(t, TRUE)
    \/ ClickEndCall
    \/ \E t \in DOMAIN tasks, ok \in BOOLEAN : handleEndCall(t, ok)
    \/ ToggleScreenShare({"audio"})
    \/ \E t \in DOMAIN tasks : DisplayResolve(t)
    \/ \E t \in DOMAIN tasks : DisplayReject(t)
    \/ \E i \in TrackIds : ScreenEnded(i)

SpecAudioShare == Init /\ [][NextAudioShare]_vars

\* C27: in an audio call, whose connection has no sender carrying video, a
\* step that starts or stops the screen share leaves the connection as it was
\* (no sender's track replaced, no description set), leaves no task waiting for
\* a camera or for a replaceTrack, makes no camera track and sends no offer or
\* answer
C27_AudioShareLeavesConnection ==
    [][(/\ rtc.callType = "audio"
        /\ rtc.peerConnection # 0 /\ ~pc.closed /\ pc.videoSender = 0
        /\ ~pc'.closed
        /\ \/ rtc'.isScreenSharing # rtc.isScreenSharing
           \/ rtc'.screenStream # rtc.screenStream)
       => /\ pc' = pc
          /\ \A t \in DOMAIN tasks' :
                 t.at \notin {"replaceTrack", "restore", "camera", "replaceCamera"}
          /\ \A i \in TrackIds : tracks'[i].kind = "video" => tracks[i].kind = "video"
          /\ \A m \in last'.emitted : m.ev \notin {"call-user", "answer-call"}]_vars

\* C27: the screen share was started and has just been stopped in an audio call
\* whose connection is open and has no sender carrying video
C27_Witness ==
    /\ last.ev = "share-stopped"
    /\ rtc.callType = "audio" /\ store.callType = "audio"
    /\ rtc.peerConnection # 0 /\ ~pc.closed /\ pc.videoSender = 0
    /\ ~rtc.isScreenSharing /\ rtc.screenStream = 0

\* C28: call-accepted starts a handleAnswer only when the service has a
\* connection, and changes nothing else.  When a handleAnswer settles, the
\* connection gets its remote description only if the service is the initiator
\* and the connection's local description is its offer; if the service is not
\* the initiator or the remote description is already set, the store, the
\* service and the connection stay as they are.  An answer waiting for a
\* connection that is replaced is never applied to the new one
C28_AnswerOnlyOnOutstandingOffer ==
    [][/\ (\E t \in DOMAIN tasks' :
              /\ t.kind = "handleAnswer"
              /\ CopiesIn(t, tasks') > CopiesIn(t, tasks))
          => /\ rtc.peerConnection # 0
             /\ UNCHANGED <<store, rtc, pc, tracks>>
       /\ (/\ \E t \in DOMAIN tasks : t.kind = "handleAnswer" /\ tasks' = Done(tasks, t)
           /\ ~pc.closed /\ ~pc'.closed)
          => /\ (pc'.remote /\ ~pc.remote) => (rtc.isInitiator /\ pc.local = "offer")
             /\ (~rtc.isInitiator \/ pc.remote) => UNCHANGED <<store, rtc, pc, tracks>>
       /\ (pc.remote /\ ~pc'.remote)
          => \A t \in DOMAIN tasks' : t.kind # "handleAnswer"]_vars

\* incoming calls that the user accepts or rejects, or that the caller ends
\* while they ring; the user may also place calls and hang up
NextRinging ==
    \/ Render
    \/ \E from \in Peers, type \in CallTypes : handleIncomingCallSignal(from, type)
    \/ ClickAccept
    \/ \E t \in DOMAIN tasks, ok \in BOOLEAN : handleAccept(t, ok)
    \/ ClickReject
    \/ \E t \in DOMAIN tasks, ok \in BOOLEAN : handleReject(t, ok)
    \/ \E callee \in Peers, type \in CallTypes : ClickCall(callee, type)
    \/ \E t \in DOMAIN tasks : handleInitiateCall(t, TRUE)
    \/ \E t \in DOMAIN tasks : MediaResolve(t)
    \/ \E t \in DOMAIN tasks : NegotiateOk(t)
    \/ ClickEndCall
    \/ \E t \in DOMAIN tasks, ok \in BOOLEAN : handleEndCall(t, ok)
    \/ /\ store.incomingCall # NoCall
       /\ handleCallEnded(store.incomingCall.id)

SpecRinging == Init /\ [][NextRinging]_vars

\* C29: while an incoming call rings and no call is active, call-ended for the
\* ringing call clears incomingCall and isRinging and leaves the store idle; the
\* step leaves the service and the connection untouched, starts no
\* initializeCall and makes no track live
C29_CallerHangupDismisses ==
    [][(/\ store.incomingCall # NoCall /\ store.isRinging
        /\ store.activeCall = NoCall
        /\ last'.ev = "call-ended"
        /\ last'.callId = store.incomingCall.id)
       => /\ store'.incomingCall = NoCall
          /\ ~store'.isRinging
          /\ ~store'.isCallActive /\ store'.activeCall = NoCall
          /\ UNCHANGED <<rtc, pc>>
          /\ \A t \in DOMAIN tasks' :
                 t.kind = "initializeCall" => CopiesIn(t, tasks') <= CopiesIn(t, tasks)
          /\ \A i \in TrackIds : tracks'[i].live => tracks[i].live]_vars

\* C29: the caller has just ended a call that was ringing here: the store is
\* idle again and there is no connection
C29_Witness ==
    /\ last.ev = "call-ended" /\ last.callId # 0 /\ last.ended = 0
    /\ store.incomingCall = NoCall /\ ~store.isRinging /\ ~store.isCallActive
    /\ rtc.peerConnection = 0 /\ pc.closed

\* C30: when handleReject finishes, reject-call has been emitted to the caller
\* of the rejected call with its call id, and incomingCall is null
C30_RejectAlwaysSignals ==
    [][(\E t \in DOMAIN tasks : t.kind = "handleReject" /\ tasks' = Done(tasks, t))
       => /\ store'.incomingCall = NoCall
          /\ \E t \in DOMAIN tasks :
                 /\ t.kind = "handleReject" /\ tasks' = Done(tasks, t)
                 /\ Msg("reject-call", t.call.caller, t.call.id) \in last'.emitted]_vars

\* C31: when the handleEndCall of the active call finishes, end-call has been
\* emitted to the other user with the call's id, the connection is closed and
\* the service has none, and the call store is idle, whether the end request
\* succeeded or failed
C31_HangupAlwaysSignals ==
    [][\A t \in DOMAIN tasks :
          (/\ t.kind = "handleEndCall"
           /\ store.isCallActive /\ t.call # NoCall /\ t.call = store.activeCall
           /\ ~Dirty
           /\ CopiesIn(t, tasks') < CopiesIn(t, tasks))
          => /\ Msg("end-call", OtherUser(t.call), t.call.id) \in last'.emitted
             /\ pc'.closed /\ rtc'.peerConnection = 0
             /\ ~store'.isCallActive /\ store'.activeCall = NoCall]_vars

\* C32: when the initiate request fails or returns no call, the step shows its
\* toast and changes nothing else: the store keeps its state (an idle store
\* stays idle, with no active call), the service and the connection are
\* untouched, no initializeCall is started, no track is made live and nothing
\* is emitted
C32_InitiateFailureStaysIdle ==
    [][last'.ev = "initiate-failed"
       => /\ store' = store
          /\ ~store.isCallActive => (~store'.isCallActive /\ store'.activeCall = NoCall)
          /\ UNCHANGED <<rtc, pc, vcs>>
          /\ \A t \in DOMAIN tasks' : t.kind = "initializeCall" => t \in DOMAIN tasks
          /\ \A i \in TrackIds : tracks'[i].live => tracks[i].live
          /\ last'.emitted = {}]_vars

\* C32: the initiate request has just failed and the client is idle: no call
\* is active, nothing is running, there is no connection and no local stream
C32_Witness ==
    /\ last.ev = "initiate-failed"
    /\ ~store.isCallActive /\ store.activeCall = NoCall
    /\ tasks = EmptyBag
    /\ rtc.peerConnection = 0 /\ rtc.localStream = 0 /\ pc.closed

\* C33: when the accept request fails or returns no call, the step clears the
\* pending incoming call and the ringing flag, leaves isCallActive and
\* activeCall as they were (a client with no active call still has none),
\* leaves the service and the connection untouched, starts no initializeCall,
\* makes no track live and emits nothing
C33_AcceptFailureEndsAttempt ==
    [][last'.ev = "accept-failed"
       => /\ store'.incomingCall = NoCall /\ ~store'.isRinging
          /\ store'.isCallActive = store.isCallActive
          /\ store'.activeCall = store.activeCall
          /\ ~store.isCallActive => ~store'.isCallActive
          /\ UNCHANGED <<rtc, pc, vcs>>
          /\ \A t \in DOMAIN tasks' : t.kind = "initializeCall" => t \in DOMAIN tasks
          /\ \A i \in TrackIds : tracks'[i].live => tracks[i].live
          /\ last'.emitted = {}]_vars

\* C33: the accept request has just failed: the incoming call is gone, no call
\* is active, nothing is running and there is no connection and no local stream
C33_Witness ==
    /\ last.ev = "accept-failed" /\ last.callId # 0
    /\ store.incomingCall = NoCall /\ ~store.isRinging
    /\ ~store.isCallActive /\ store.activeCall = NoCall
    /\ tasks = EmptyBag
    /\ rtc.peerConnection = 0 /\ rtc.localStream = 0 /\ pc.closed

\* C34: a step in which initiateCall / acceptCall gets its media and runs
\* createPeerConnection ends with createPeerConnection returned: the replay
\* loop over pendingIceCandidates is over, whatever the queue held, and the
\* caller goes on to its next negotiation step
C34_CreateConnectionReturns ==
    [][\A t \in DOMAIN tasks :
          (/\ t.kind = "initializeCall" /\ t.at = "media"
           /\ ~Dirty
           /\ CopiesIn(t, tasks') < CopiesIn(t, tasks)
           /\ rtc'.peerConnection # 0 /\ ~pc'.closed)
          => /\ ~hung'
             /\ \A u \in DOMAIN tasks' : u.at # "replay"]_vars

\* a video call that connects, in which the user switches the camera off and on
\* and shares and unshares the screen (by the button or in the browser's own
\* UI); no device request and no replaceTrack fails
NextVideoShare ==
    \/ Render
    \/ \E callee \in Peers : ClickCall(callee, "video")
    \/ \E t \in DOMAIN tasks : handleInitiateCall(t, TRUE)
    \/ \E t \in DOMAIN tasks : MediaResolve(t)
    \/ \E t \in DOMAIN tasks : NegotiateOk(t)
    \/ handleCallAccepted
    \/ \E t \in DOMAIN tasks : handleAnswer(t, TRUE)
    \/ onconnectionstatechange("connected")
    \/ ClickEndCall
    \/ \E t \in DOMAIN tasks, ok \in BOOLEAN : handleEndCall(t, ok)
    \/ handleToggleVideo
    \/ handleToggleScreenShare
    \/ \E t \in DOMAIN tasks : DisplayResolve(t)
    \/ \E t \in DOMAIN tasks : ReplaceSettle(t, TRUE)
    \/ \E t \in DOMAIN tasks : StopRestoreSettle(t, TRUE)
    \/ \E t \in DOMAIN tasks : StopCameraResolve(t)
    \/ \E t \in DOMAIN tasks : StopCameraReplaced(t, TRUE)
    \/ \E i \in TrackIds : ScreenEnded(i)

SpecVideoShare == Init /\ [][NextVideoShare]_vars

\* C35: in a video call with nothing in flight, the only call placed so far,
\* when the store shows video off and no screen share, the track on the
\* connection's video sender is not a live, enabled camera track
C35_VideoOffMeansNoCamera ==
    (/\ store.isCallActive /\ store.callType = "video"
     /\ nextCall = 2 /\ store.activeCall.id = 1 /\ rtc.callId = 1
     /\ ~store.isVideoEnabled /\ ~store.isScreenSharing
     /\ tasks = EmptyBag
     /\ ~pc.closed /\ pc.videoSender # 0)
    => ~(/\ tracks[pc.videoSender].kind = "video"
         /\ tracks[pc.videoSender].live
         /\ tracks[pc.videoSender].enabled)

\* C36: while no startScreenShare and no stopScreenShare is in flight, the
\* store's isScreenSharing equals the service's isScreenSharing
C36_ShareFlagsAgree ==
    (\A t \in DOMAIN tasks : t.kind \notin {"startScreenShare", "stopScreenShare"})
    => store.isScreenSharing = rtc.isScreenSharing

\* C37: when startScreenShare fails at replaceTrack, after the capture was
\* granted, the service does not show sharing, the sender keeps its track and
\* the captured screen track is no longer live
C37_FailedShareLeavesNothing ==
    [][\A t \in DOMAIN tasks :
          (/\ t.kind = "startScreenShare" /\ t.at = "replaceTrack"
           /\ ~Dirty /\ ~pc.closed /\ ~pc'.closed
           /\ tasks' = Done(tasks, t)
           /\ ~rtc'.isScreenSharing)
          => /\ pc'.videoSender = pc.videoSender
             /\ ~tracks'[t.arg].live]_vars

\* sessions that sign in and out: every caller of connect (login, register and
\* the SocketProvider effect call it unconditionally, fetchUser when not
\* connected), disconnect, and the transports connecting and dropping
NextSession ==
    \/ login
    \/ fetchUser
    \/ logout
    \/ \E ev \in SocketEvents : onEvent(ev)
    \/ \E ev \in SocketEvents : cleanup(ev)
    \/ \E i \in DOMAIN socketService.made : SocketConnected(i)
    \/ \E i \in DOMAIN socketService.made : SocketDisconnected(i)

SpecSession == Init /\ [][NextSession]_vars

\* C38: at most one of the Sockets the service has created is open (connected,
\* connecting or reconnecting), and it is the service's current socket
C38_OneLiveSocket ==
    \A i \in DOMAIN socketService.made :
        ~socketService.made[i].closed => i = socketService.socket

\* C39: a step in which the call store's endCall runs (a hang-up, or a
\* call-rejected, user-busy or user-unavailable event, or a call-ended event for
\* the active call or with no active call) leaves every field of the store at
\* its initial value, leaves no track of the local and remote streams the store
\* held live, and leaves a store on which a further endCall changes nothing and
\* finds no stream to stop
C39_EndCallResets ==
    [][(\/ last'.ev \in {"hangup", "call-rejected", "user-busy", "user-unavailable"}
        \/ /\ last'.ev = "call-ended"
           /\ store.activeCall = NoCall \/ store.activeCall.id = last'.callId)
       => /\ store' = StoreInit
          /\ \A i \in TrackIds :
                 (tracks[i].stream # 0 /\ tracks[i].stream \in StoreStreams(store))
                 => ~tracks'[i].live
          /\ Store_endCall(store') = store'
          /\ StoreStreams(store') = {}]_vars

\* C39: call-rejected has just ended a call whose local stream the store held:
\* the store is back at its initial value and the stream's tracks, which the
\* service still refers to, are stopped
C39_Witness ==
    /\ last.ev = "call-rejected" /\ last.ended = 1
    /\ store = StoreInit
    /\ rtc.localStream # 0
    /\ \E i \in TrackIds : tracks[i].stream = rtc.localStream
    /\ \A i \in TrackIds : tracks[i].stream = rtc.localStream => ~tracks[i].live

=============================================================================
